---- MODULE Spec2Model ----
(***************************************************************************)
(* Invoice financial state engine of the Sijil backend: Sales, Freight and *)
(* Dubai clearance invoices, their payment collections and the sequence    *)
(* counters, as driven by the HTTP controllers.                            *)
(*                                                                         *)
(* Money is counted in thousandths of a currency unit (1000 == 1.00), so   *)
(* that quantity*rate*vatPercentage/100 and ceilToTwoDecimals are exact.   *)
(* Dates are points of a discrete clock 0..MaxTime; "now" is new Date().   *)
(*                                                                         *)
(* Document saves follow Mongoose: the built-in validation runs first on   *)
(* the document as the controller left it, then the schema's pre('save')   *)
(* hook, then the write (where the unique index is enforced).              *)
(***************************************************************************)
EXTENDS Integers, Sequences, FiniteSets, TLC

\* ---------------------------------------------------------------- bounds
MaxTime == 1
MaxInvoices == 1
MaxPayments == 3
MaxCallers == 3
\* invoices created by the specification of the invoice numbers
MaxNumbered == 2
\* concurrent payment requests on one sale
MaxRacers == 2
\* ledger entries that can be stored
MaxEntries == 2
\* the money values the rounding is applied to run from -MaxMoney to MaxMoney thousandths
MaxMoney == 2100

\* ------------------------------------------------------ request inputs
Dates == 0..MaxTime
InvoiceIds == 1..MaxInvoices
\* the ids the invoice collections can hold
StoredIds == 1..MaxNumbered
PaymentIds == 1..MaxPayments
SeqCallers == 1..MaxCallers

\* (quantity, rate, vatPercentage) of a sale request body
SaleLines ==
  { [quantity |-> 1, rate |-> 0, vatPercentage |-> 0],
    [quantity |-> 1, rate |-> 1000, vatPercentage |-> 0],
    [quantity |-> 3, rate |-> 1000, vatPercentage |-> 0],
    [quantity |-> 1, rate |-> 1000, vatPercentage |-> 100] }
SaleDiscounts == {0, 3000}
Amounts == {0, 1000, 2000}
PayDiscounts == {0, 1000}

\* req.user.role and what req.body.password is against the stored password
Users ==
  { [role |-> "employee", password |-> "right"],
    [role |-> "admin", password |-> "none"],
    [role |-> "admin", password |-> "wrong"],
    [role |-> "admin", password |-> "right"] }

\* ------------------------------------------------------------- values
NoDate == -1
NoInvoice == [type |-> "none"]
NoPayment == [invoice |-> 0]
MinPayment == 10

\* res is the response to the last request: the handler and res.status(...)
\* the values of paymentMethod the requests carry
PaymentMethods == {"cash", "bank_transfer"}

\* the requests in flight on the payments of one sale
Racers == 1..MaxRacers

\* no daily ledger for a date
NoLedger == [date |-> -1]

\* no value: a formatter that has not run
NoValue == [kind |-> "none"]

VARIABLES now, invoices, payments, nextInvoiceId, nextPaymentId, counters, seqCalls, res,
          calls, ledger, fmt, dailyLedgers

vars == <<now, invoices, payments, nextInvoiceId, nextPaymentId, counters, seqCalls, res,
          calls, ledger, fmt, dailyLedgers>>

\* ------------------------------------------------------------ helpers
RECURSIVE SumAmounts(_, _)
\* reduce((sum, p) => sum + (p.amount || 0), 0) over the payment ids in S
SumAmounts(pays, S) ==
  IF S = {} THEN 0
  ELSE LET p == CHOOSE q \in S : TRUE IN pays[p].amount + SumAmounts(pays, S \ {p})

RECURSIVE SumDiscounts(_, _)
\* reduce((sum, p) => sum + (p.discount || 0), 0) over the payment ids in S
SumDiscounts(pays, S) ==
  IF S = {} THEN 0
  ELSE LET p == CHOOSE q \in S : TRUE IN pays[p].discount + SumDiscounts(pays, S \ {p})

Max(a, b) == IF a >= b THEN a ELSE b

\* Payment.find({ saleId }) / the payments virtual: ids of the payment
\* records that reference invoice id.
paymentsOf(pays, id) == {p \in PaymentIds : pays[p].invoice = id}

\* the rounding toward minus infinity instead
floorToTwoDecimals(value) == (value \div 10) * 10

\* Math.ceil(value * 100 - 1e-10) / 100 on thousandths; integers unchanged.
ceilToTwoDecimals(value) ==
  IF value % 1000 = 0 THEN value
  ELSE (0 - ((0 - value) \div 10)) * 10

RECURSIVE Digits(_)
\* String(n): the decimal digits of a natural number
Digits(n) == IF n < 10 THEN <<n>> ELSE Digits(n \div 10) \o <<n % 10>>

RECURSIVE padStart(_, _)
\* String.prototype.padStart(len, '0')
padStart(ds, len) == IF Len(ds) >= len THEN ds ELSE padStart(<<0>> \o ds, len)

\* `INV-${String(nextSequence).padStart(6, '0')}`
formatInvoiceNumber(prefix, width, n) == <<prefix, padStart(Digits(n), width)>>

NoNumber == <<>>
ProvidedNumbers == {NoNumber, <<"A", <<7>>>>}

\* an update that sets the sequence instead of incrementing it
getNextSequenceSet(ctrs, name) == [ctrs EXCEPT ![name] = 1]

\* Counter.getNextSequence: findByIdAndUpdate(name, {$inc: {sequence: 1}},
\* {new: true, upsert: true}) - one atomic step of the store; a counter
\* that does not exist yet counts as 0 and is created by the upsert.
\* The result is the counter collection after the call; the value returned
\* to the caller is its entry for name.
getNextSequence(ctrs, name) == [ctrs EXCEPT ![name] = @ + 1]

\* ------------------------------------------------------------- Sales
\* a sale whose status the creation forces and whose received amount
\* starts at what the first payment would bring
newSaleReceived(number, line, discount, dueDate) ==
  [type |-> "Sales", invoiceNumber |-> number, quantity |-> line.quantity,
   rate |-> line.rate, vatPercentage |-> line.vatPercentage, vatAmount |-> 0,
   discount |-> discount, amount |-> 0, dueDate |-> dueDate, receivedAmount |-> 1000,
   outstandingAmount |-> 0, status |-> "unpaid", lastPaymentDate |-> NoDate]

\* new Sales({...}) with the schema defaults
newSale(number, line, discount, dueDate) ==
  [type |-> "Sales", invoiceNumber |-> number, quantity |-> line.quantity,
   rate |-> line.rate, vatPercentage |-> line.vatPercentage, vatAmount |-> 0,
   discount |-> discount, amount |-> 0, dueDate |-> dueDate, receivedAmount |-> 0,
   outstandingAmount |-> 0, status |-> "unpaid", lastPaymentDate |-> NoDate]

\* the min/max validators of salesSchema
salesValid(doc) ==
  /\ doc.quantity >= 1
  /\ doc.rate >= 0
  /\ doc.vatPercentage >= 0 /\ doc.vatPercentage <= 100
  /\ doc.vatAmount >= 0
  /\ doc.discount >= 0
  /\ doc.amount >= 0
  /\ doc.receivedAmount >= 0
  /\ doc.outstandingAmount >= 0

\* a hook that recomputes the amounts and the status but leaves the stored
\* outstanding amount as it finds it
salesPreSaveOutstandingKept(doc, t) ==
  LET subtotal == doc.quantity * doc.rate
      vatAmount == (subtotal * doc.vatPercentage) \div 100
      amount == subtotal + vatAmount - doc.discount
  IN [doc EXCEPT !.vatAmount = vatAmount, !.amount = amount,
                 !.status = IF amount - doc.receivedAmount <= 0 THEN "paid"
                            ELSE IF doc.receivedAmount > 0 THEN "partially_paid"
                            ELSE IF t > doc.dueDate THEN "overdue"
                            ELSE "unpaid"]

\* salesSchema.pre('save')
salesPreSave(doc, t) ==
  LET subtotal == doc.quantity * doc.rate
      vatAmount == (subtotal * doc.vatPercentage) \div 100
      amount == subtotal + vatAmount - doc.discount
      outstandingAmount == amount - doc.receivedAmount
  IN [doc EXCEPT !.vatAmount = vatAmount, !.amount = amount,
                 !.outstandingAmount = outstandingAmount,
                 !.status = IF outstandingAmount <= 0 THEN "paid"
                            ELSE IF doc.receivedAmount > 0 THEN "partially_paid"
                            ELSE IF t > doc.dueDate THEN "overdue"
                            ELSE "unpaid"]

\* a collection without the unique index
salesNumberUnchecked(invs, id, number) == TRUE

\* the unique index on invoiceNumber, enforced by the store at write time
salesNumberFree(invs, id, number) ==
  \A j \in StoredIds : (j # id /\ invs[j].type = "Sales") => invs[j].invoiceNumber # number

\* doc.save() succeeds: validation passes and the write does not hit the index
saleSaveOk(invs, id, doc) == salesValid(doc) /\ salesNumberFree(invs, id, doc.invoiceNumber)

isSale(invs, id) == invs[id].type = "Sales"

\* createSale up to newSale.save(): the response status
createSaleStatus(trn, given, line, discount, dueDate) ==
  IF line.vatPercentage > 0 /\ ~trn THEN 400
  ELSE IF given # NoNumber /\ ~salesNumberFree(invoices, 0, given) THEN 400
  ELSE LET number == IF given # NoNumber THEN given
                     ELSE formatInvoiceNumber("INV", 6,
                            getNextSequence(counters, "invoiceNumber")["invoiceNumber"])
       IN IF saleSaveOk(invoices, nextInvoiceId, newSale(number, line, discount, dueDate))
          THEN 201 ELSE 500

\* createSale, shared by both revisions of the sales controller: the TRN
\* rule, the invoice number (given or generated), new Sales(...).save()
createSaleReq(trn, given, line, discount, dueDate) ==
  LET st == createSaleStatus(trn, given, line, discount, dueDate)
      ctrs == IF st \in {201, 500} /\ given = NoNumber
              THEN getNextSequence(counters, "invoiceNumber") ELSE counters
      number == IF given # NoNumber THEN given
                ELSE formatInvoiceNumber("INV", 6, ctrs["invoiceNumber"])
  IN /\ nextInvoiceId \in StoredIds
     /\ counters' = ctrs
     /\ invoices' = IF st = 201
                    THEN [invoices EXCEPT ![nextInvoiceId] =
                            salesPreSave(newSale(number, line, discount, dueDate), now)]
                    ELSE invoices
     /\ nextInvoiceId' = IF st = 201 THEN nextInvoiceId + 1 ELSE nextInvoiceId
     /\ res' = [op |-> "createSale", status |-> st]
     /\ UNCHANGED <<dailyLedgers, fmt, calls, ledger, now, payments, nextPaymentId, seqCalls>>

\* POST /api/sales, current controller: the invoice number may be given,
\* the sale carries no discount of its own
createSale ==
  \E trn \in BOOLEAN, given \in ProvidedNumbers, line \in SaleLines, dueDate \in Dates :
    nextInvoiceId <= MaxInvoices /\ createSaleReq(trn, given, line, 0, dueDate)

\* POST /api/sales, earlier controller revision: the number is always
\* generated and the request's flat discount is stored on the sale
createSaleDiscount ==
  \E trn \in BOOLEAN, line \in SaleLines, discount \in SaleDiscounts, dueDate \in Dates :
    nextInvoiceId <= MaxInvoices /\ createSaleReq(trn, NoNumber, line, discount, dueDate)

\* updateSale: the sale as the controller leaves it before sale.save()
saleUpdated(sale, given, line, dueDate) ==
  [sale EXCEPT !.invoiceNumber = IF given # NoNumber THEN given ELSE @,
               !.quantity = line.quantity, !.rate = line.rate,
               !.vatPercentage = line.vatPercentage, !.dueDate = dueDate]

updateSaleStatus(id, trn, given, line, dueDate) ==
  IF line.vatPercentage > 0 /\ ~trn THEN 400
  ELSE IF ~isSale(invoices, id) THEN 404
  ELSE IF given # NoNumber /\ given # invoices[id].invoiceNumber
          /\ ~salesNumberFree(invoices, id, given) THEN 400
  ELSE IF saleSaveOk(invoices, id, saleUpdated(invoices[id], given, line, dueDate))
  THEN 200 ELSE 500

updateSaleReq(id, trn, given, line, dueDate) ==
  /\ invoices' = IF updateSaleStatus(id, trn, given, line, dueDate) = 200
                 THEN [invoices EXCEPT ![id] =
                         salesPreSave(saleUpdated(invoices[id], given, line, dueDate), now)]
                 ELSE invoices
  /\ res' = [op |-> "updateSale", status |-> updateSaleStatus(id, trn, given, line, dueDate)]
  /\ UNCHANGED <<dailyLedgers, fmt, calls, ledger, now, payments, nextInvoiceId, nextPaymentId, counters, seqCalls>>

\* PUT /api/sales/:id
updateSale ==
  \E id \in InvoiceIds, trn \in BOOLEAN, given \in ProvidedNumbers, line \in SaleLines,
     dueDate \in Dates :
    updateSaleReq(id, trn, given, line, dueDate)

\* salesSchema.methods.addPayment: the Payment document it saves (built
\* without the discount, so the schema default 0 is stored)
salePaymentRecord(id, paymentData) ==
  [invoice |-> id, amount |-> paymentData.amount, discount |-> 0,
   paymentDate |-> paymentData.paymentDate]

\* salesSchema.methods.addPayment: the sale as the method leaves it before this.save()
saleWithPayment(sale, paymentData, t) ==
  LET receivedAmount == sale.receivedAmount + paymentData.amount
      outstandingAmount == sale.amount - receivedAmount
  IN [sale EXCEPT !.receivedAmount = receivedAmount,
                  !.outstandingAmount = outstandingAmount,
                  !.lastPaymentDate = paymentData.paymentDate,
                  !.status = IF outstandingAmount <= 0 THEN "paid"
                             ELSE IF receivedAmount > 0 THEN "partially_paid"
                             ELSE IF t > sale.dueDate THEN "overdue"
                             ELSE "unpaid"]

\* the guards without the overpayment one
addPaymentCheckNoOverpayment(sale, numericAmount, numericDiscount) ==
  IF numericAmount <= 0 /\ numericDiscount <= 0 THEN "Invalid payment"
  ELSE IF sale.outstandingAmount <= 0 THEN "Sale already paid"
  ELSE "ok"

\* the guards without the one on a sale that is already paid
addPaymentCheckNoPaidCheck(sale, numericAmount, numericDiscount) ==
  IF numericAmount <= 0 /\ numericDiscount <= 0 THEN "Invalid payment"
  ELSE IF numericAmount + numericDiscount > sale.outstandingAmount
  THEN "Overpayment not allowed"
  ELSE "ok"

\* the guards of the addPayment controller on the amounts, in order
addPaymentCheck(sale, numericAmount, numericDiscount) ==
  IF numericAmount <= 0 /\ numericDiscount <= 0 THEN "Invalid payment"
  ELSE IF sale.outstandingAmount <= 0 THEN "Sale already paid"
  ELSE IF numericAmount + numericDiscount > sale.outstandingAmount
  THEN "Overpayment not allowed"
  ELSE "ok"

\* the route's validators, then the controller: the response status
addPaymentStatus(id, amount, discount, paymentDate) ==
  IF amount < MinPayment \/ discount < 0 THEN 400
  ELSE IF ~isSale(invoices, id) THEN 404
  ELSE IF addPaymentCheck(invoices[id], amount, discount) # "ok" THEN 400
  ELSE IF saleSaveOk(invoices, id,
            saleWithPayment(invoices[id], [amount |-> amount, paymentDate |-> paymentDate], now))
  THEN 200 ELSE 500

\* the message of the response
addPaymentMessage(id, amount, discount, paymentDate) ==
  IF amount < MinPayment \/ discount < 0 THEN "Validation error"
  ELSE IF ~isSale(invoices, id) THEN "Sale not found"
  ELSE IF addPaymentCheck(invoices[id], amount, discount) # "ok"
  THEN addPaymentCheck(invoices[id], amount, discount)
  ELSE IF addPaymentStatus(id, amount, discount, paymentDate) = 200
  THEN "Payment added successfully" ELSE "Server error"

\* what the controllers are called with: an Express request carries its
\* route parameters under params, a bare id carries none
Request(id) == [params |-> [id |-> id]]
BareId(id) == [value |-> id]

\* getSaleById(req, res) called with one argument: reading req.params.id of
\* an argument without params throws, the handler's catch then calls
\* res.status on the missing res, and the call rejects; an Express request
\* is answered through res and the call resolves to undefined
getSaleById(req) ==
  IF "params" \notin DOMAIN req THEN "rejected" ELSE "undefined"

\* createSalesPaymentEntry(saleId, paymentAmount, paymentMethod): the ledger
\* entries after the call; every error is caught and logged
createSalesPaymentEntry(entries, saleId, paymentAmount, paymentMethod) ==
  LET sale == getSaleById(BareId(saleId))
      mode == IF paymentMethod = "cash" THEN "cash" ELSE "bank"
  IN IF sale \in {"rejected", "undefined"} THEN entries
     ELSE Append(entries, [type |-> "receipt", mode |-> mode, amount |-> paymentAmount,
                           reference_type |-> "sales_payment", reference_id |-> saleId])

\* the whole addPayment request: validators, guards, sale.addPayment and,
\* after it, createSalesPaymentEntry
addPaymentReq(id, amount, discount, paymentDate, paymentMethod) ==
  LET st == addPaymentStatus(id, amount, discount, paymentDate)
      paymentData == [amount |-> amount, paymentDate |-> paymentDate, discount |-> discount]
  IN /\ nextPaymentId <= MaxPayments
     /\ payments' = IF st \in {200, 500}
                    THEN [payments EXCEPT ![nextPaymentId] = salePaymentRecord(id, paymentData)]
                    ELSE payments
     /\ nextPaymentId' = IF st \in {200, 500} THEN nextPaymentId + 1 ELSE nextPaymentId
     /\ invoices' = IF st = 200
                    THEN [invoices EXCEPT ![id] =
                            salesPreSave(saleWithPayment(invoices[id], paymentData, now), now)]
                    ELSE invoices
     /\ res' = [op |-> "addPayment", status |-> st,
               message |-> addPaymentMessage(id, amount, discount, paymentDate)]
     /\ ledger' = IF st = 200 THEN createSalesPaymentEntry(ledger, id, amount, paymentMethod)
                  ELSE ledger
     /\ UNCHANGED <<dailyLedgers, fmt, calls, now, nextInvoiceId, counters, seqCalls>>

\* POST /api/sales/:id/payments
addPayment ==
  \E id \in InvoiceIds, amount \in Amounts, discount \in PayDiscounts, paymentDate \in Dates,
     paymentMethod \in PaymentMethods :
    addPaymentReq(id, amount, discount, paymentDate, paymentMethod)

\* the same with the sort ascending: the earliest payment's date
earliestPaymentDate(pays, S) ==
  IF S = {} THEN NoDate
  ELSE pays[CHOOSE p \in S : \A q \in S : pays[q].paymentDate >= pays[p].paymentDate].paymentDate

\* remainingPayments.sort((a, b) => b.paymentDate - a.paymentDate)[0].paymentDate
latestPaymentDate(pays, S) ==
  IF S = {} THEN NoDate
  ELSE pays[CHOOSE p \in S : \A q \in S : pays[q].paymentDate <= pays[p].paymentDate].paymentDate

\* a recalculation that leaves the received amount as it was stored
saleRecalculatedReceivedKept(sale, pays, id, t) ==
  [sale EXCEPT !.lastPaymentDate = latestPaymentDate(pays, paymentsOf(pays, id))]

\* deletePayment: the recalculation between the payment's removal and sale.save()
saleRecalculated(sale, pays, id, t) ==
  LET remainingPayments == paymentsOf(pays, id)
      totalReceived == SumAmounts(pays, remainingPayments)
      totalDiscount == SumDiscounts(pays, remainingPayments)
      subtotal == ceilToTwoDecimals(sale.quantity * sale.rate)
      vatAmount == ceilToTwoDecimals((subtotal * sale.vatPercentage) \div 100)
      amount == ceilToTwoDecimals(Max(0, subtotal + vatAmount - totalDiscount))
      outstandingAmount == ceilToTwoDecimals(amount - totalReceived)
  IN [sale EXCEPT !.receivedAmount = totalReceived, !.vatAmount = vatAmount,
                  !.amount = amount, !.outstandingAmount = outstandingAmount,
                  !.status = IF outstandingAmount <= 0 THEN "paid"
                             ELSE IF totalReceived > 0 THEN "partially_paid"
                             ELSE IF t > sale.dueDate THEN "overdue"
                             ELSE "unpaid",
                  !.lastPaymentDate = latestPaymentDate(pays, remainingPayments)]

\* the caller check with the role flag alone
adminCheckRoleOnly(user) == IF user.role # "admin" THEN 403 ELSE 200

\* the checks of deletePayment and deleteSale on the caller: the route's
\* requireAdmin and password validator, then the controller's own
adminCheck(user) ==
  IF user.role # "admin" THEN 403
  ELSE IF user.password = "none" THEN 400
  ELSE IF user.password # "right" THEN 401
  ELSE 200

\* requireEmployee = authorize('employee', 'admin'), on the routes of the
\* freight and Dubai clearance invoices, their DELETE included
requireEmployee(user) == IF user.role \in {"employee", "admin"} THEN 200 ELSE 403

paymentRemoved(pays, paymentId) == [pays EXCEPT ![paymentId] = NoPayment]

deletePaymentStatus(user, saleId, paymentId) ==
  IF adminCheck(user) # 200 THEN adminCheck(user)
  ELSE IF ~isSale(invoices, saleId) \/ payments[paymentId] = NoPayment THEN 404
  ELSE IF payments[paymentId].invoice # saleId THEN 400
  ELSE IF saleSaveOk(invoices, saleId,
            saleRecalculated(invoices[saleId], paymentRemoved(payments, paymentId), saleId, now))
  THEN 200 ELSE 500

deletePaymentReq(user, saleId, paymentId) ==
  LET st == deletePaymentStatus(user, saleId, paymentId)
      pays == paymentRemoved(payments, paymentId)
  IN /\ payments' = IF st \in {200, 500} THEN pays ELSE payments
     /\ invoices' = IF st = 200
                    THEN [invoices EXCEPT ![saleId] =
                            salesPreSave(saleRecalculated(invoices[saleId], pays, saleId, now), now)]
                    ELSE invoices
     /\ res' = [op |-> "deletePayment", status |-> st]
     /\ UNCHANGED <<dailyLedgers, fmt, calls, ledger, now, nextInvoiceId, nextPaymentId, counters, seqCalls>>

\* DELETE /api/sales/:saleId/payments/:paymentId
deletePayment ==
  \E user \in Users, saleId \in InvoiceIds, paymentId \in PaymentIds :
    deletePaymentReq(user, saleId, paymentId)

deleteSaleStatus(user, id) ==
  IF adminCheck(user) # 200 THEN adminCheck(user)
  ELSE IF ~isSale(invoices, id) THEN 404
  ELSE 200

\* Payment.deleteMany({ saleId: id }) and its like in the other controllers
paymentsRemovedOf(pays, id) ==
  [p \in PaymentIds |-> IF pays[p].invoice = id THEN NoPayment ELSE pays[p]]

\* a deletion that gives the deleted sale's number back to the counter
deleteSaleReqReleasingNumber(user, id) ==
  LET st == deleteSaleStatus(user, id)
  IN /\ payments' = IF st = 200 THEN paymentsRemovedOf(payments, id) ELSE payments
     /\ invoices' = IF st = 200 THEN [invoices EXCEPT ![id] = NoInvoice] ELSE invoices
     /\ counters' = IF st = 200 THEN [counters EXCEPT !["invoiceNumber"] = @ - 1] ELSE counters
     /\ res' = [op |-> "deleteSale", status |-> st]
     /\ UNCHANGED <<dailyLedgers, fmt, calls, ledger, now, nextInvoiceId, nextPaymentId, seqCalls>>

deleteSaleReq(user, id) ==
  LET st == deleteSaleStatus(user, id)
  IN /\ payments' = IF st = 200 THEN paymentsRemovedOf(payments, id) ELSE payments
     /\ invoices' = IF st = 200 THEN [invoices EXCEPT ![id] = NoInvoice] ELSE invoices
     /\ res' = [op |-> "deleteSale", status |-> st]
     /\ UNCHANGED <<dailyLedgers, fmt, calls, ledger, now, nextInvoiceId, nextPaymentId, counters, seqCalls>>

\* DELETE /api/sales/:id
deleteSale == \E user \in Users, id \in InvoiceIds : deleteSaleReq(user, id)

\* ----------------------------------------------------------- Freight
FreightAmounts == {2000}
ConversionRates == {1}
\* bodies of PUT /api/freight-invoices/:id: every field is optional, and
\* Object.assign copies whatever the body carries onto the document
FreightBodies ==
  { [amount_pkr |-> 1000], [amount_pkr |-> 4000], [conversion_rate |-> 2],
    [due_date |-> 0], [paid_amount_pkr |-> 0] }

\* new FreightInvoice({...}) with the schema defaults
newFreightInvoice(number, amount_pkr, conversion_rate, due_date) ==
  [type |-> "Freight", invoice_number |-> number, amount_pkr |-> amount_pkr,
   conversion_rate |-> conversion_rate, amount_aed |-> 0, due_date |-> due_date,
   paid_amount_pkr |-> 0, paid_amount_aed |-> 0, outstanding_amount_pkr |-> 0,
   outstanding_amount_aed |-> 0, status |-> "unpaid", last_payment_date |-> NoDate]

\* the min validators of freightInvoiceSchema (0.01 is 10 thousandths; the
\* conversion rate is a plain number, its minimum 0.000001)
freightValid(doc) ==
  /\ doc.amount_pkr >= MinPayment
  /\ doc.conversion_rate > 0
  /\ doc.amount_aed >= 0
  /\ doc.paid_amount_pkr >= 0
  /\ doc.paid_amount_aed >= 0
  /\ doc.outstanding_amount_pkr >= 0
  /\ doc.outstanding_amount_aed >= 0

\* freightInvoiceSchema.pre('save')
freightPreSave(doc, t) ==
  LET amount_aed == IF doc.amount_pkr # 0 /\ doc.conversion_rate # 0 /\ doc.conversion_rate > 0
                    THEN doc.amount_pkr \div doc.conversion_rate
                    ELSE doc.amount_aed
      outstanding_amount_pkr == doc.amount_pkr - doc.paid_amount_pkr
      outstanding_amount_aed == amount_aed - doc.paid_amount_aed
  IN [doc EXCEPT !.amount_aed = amount_aed,
                 !.outstanding_amount_pkr = outstanding_amount_pkr,
                 !.outstanding_amount_aed = outstanding_amount_aed,
                 !.status = IF outstanding_amount_pkr <= 0 THEN "paid"
                            ELSE IF doc.paid_amount_pkr > 0 THEN "partially_paid"
                            ELSE IF t > doc.due_date THEN "overdue"
                            ELSE "unpaid"]

isFreight(invs, id) == invs[id].type = "Freight"

\* the unique index on invoice_number, enforced by the store at write time
freightNumberFree(invs, id, number) ==
  \A j \in StoredIds :
    (j # id /\ invs[j].type = "Freight") => invs[j].invoice_number # number

\* freightInvoice.save() succeeds: validation passes and the write does not hit the index
freightSaveOk(invs, id, doc) ==
  freightValid(doc) /\ freightNumberFree(invs, id, doc.invoice_number)

\* POST /api/freight-invoices: generateInvoiceNumber, new FreightInvoice, save
createFreightInvoiceReq(amount_pkr, conversion_rate, due_date) ==
  LET ctrs == getNextSequence(counters, "freight_invoice")
      doc == newFreightInvoice(formatInvoiceNumber("FR", 4, ctrs["freight_invoice"]),
                               amount_pkr, conversion_rate, due_date)
  IN /\ nextInvoiceId \in StoredIds
     /\ counters' = ctrs
     /\ invoices' = IF freightSaveOk(invoices, nextInvoiceId, doc)
                    THEN [invoices EXCEPT ![nextInvoiceId] = freightPreSave(doc, now)]
                    ELSE invoices
     /\ nextInvoiceId' = IF freightSaveOk(invoices, nextInvoiceId, doc) THEN nextInvoiceId + 1 ELSE nextInvoiceId
     /\ res' = [op |-> "createFreightInvoice", status |-> IF freightSaveOk(invoices, nextInvoiceId, doc) THEN 201 ELSE 500]
     /\ UNCHANGED <<dailyLedgers, fmt, calls, ledger, now, payments, nextPaymentId, seqCalls>>

createFreightInvoice ==
  \E amount_pkr \in FreightAmounts, conversion_rate \in ConversionRates, due_date \in Dates :
    nextInvoiceId <= MaxInvoices /\ createFreightInvoiceReq(amount_pkr, conversion_rate, due_date)

updateFreightInvoiceStatus(id, data) ==
  IF ~isFreight(invoices, id) THEN 404
  ELSE IF freightSaveOk(invoices, id, data @@ invoices[id]) THEN 200 ELSE 500

\* PUT /api/freight-invoices/:id: Object.assign(freightInvoice, data), save
updateFreightInvoiceReq(id, data) ==
  /\ invoices' = IF updateFreightInvoiceStatus(id, data) = 200
                 THEN [invoices EXCEPT ![id] = freightPreSave(data @@ invoices[id], now)]
                 ELSE invoices
  /\ res' = [op |-> "updateFreightInvoice", status |-> updateFreightInvoiceStatus(id, data)]
  /\ UNCHANGED <<dailyLedgers, fmt, calls, ledger, now, payments, nextInvoiceId, nextPaymentId, counters, seqCalls>>

updateFreightInvoice ==
  \E id \in InvoiceIds, data \in FreightBodies : updateFreightInvoiceReq(id, data)

\* freightInvoiceSchema.methods.addPayment: the FreightPayment it saves
freightPaymentRecord(id, paymentData) ==
  [invoice |-> id, amount |-> paymentData.amount, discount |-> 0,
   paymentDate |-> paymentData.paymentDate]

\* freightInvoiceSchema.methods.addPayment: the invoice before this.save()
freightWithPayment(doc, paymentData, t) ==
  LET paid_amount_pkr == doc.paid_amount_pkr + paymentData.amount
      paid_amount_aed == paid_amount_pkr \div doc.conversion_rate
      outstanding_amount_pkr == doc.amount_pkr - paid_amount_pkr
  IN [doc EXCEPT !.paid_amount_pkr = paid_amount_pkr,
                 !.paid_amount_aed = paid_amount_aed,
                 !.outstanding_amount_pkr = outstanding_amount_pkr,
                 !.outstanding_amount_aed = doc.amount_aed - paid_amount_aed,
                 !.last_payment_date = paymentData.paymentDate,
                 !.status = IF outstanding_amount_pkr <= 0 THEN "paid"
                            ELSE IF paid_amount_pkr > 0 THEN "partially_paid"
                            ELSE IF t > doc.due_date THEN "overdue"
                            ELSE "unpaid"]

addFreightPaymentStatus(id, amount, paymentDate) ==
  IF amount < MinPayment THEN 400
  ELSE IF ~isFreight(invoices, id) THEN 404
  ELSE IF amount <= 0 THEN 400
  ELSE IF amount > invoices[id].outstanding_amount_pkr THEN 400
  ELSE IF freightValid(freightWithPayment(invoices[id],
                         [amount |-> amount, paymentDate |-> paymentDate], now))
  THEN 200 ELSE 500

\* POST /api/freight-invoices/:id/payment
addFreightPaymentReq(id, amount, paymentDate) ==
  LET st == addFreightPaymentStatus(id, amount, paymentDate)
      paymentData == [amount |-> amount, paymentDate |-> paymentDate]
  IN /\ nextPaymentId <= MaxPayments
     /\ payments' = IF st \in {200, 500}
                    THEN [payments EXCEPT ![nextPaymentId] = freightPaymentRecord(id, paymentData)]
                    ELSE payments
     /\ nextPaymentId' = IF st \in {200, 500} THEN nextPaymentId + 1 ELSE nextPaymentId
     /\ invoices' = IF st = 200
                    THEN [invoices EXCEPT ![id] =
                            freightPreSave(freightWithPayment(invoices[id], paymentData, now), now)]
                    ELSE invoices
     /\ res' = [op |-> "addFreightPayment", status |-> st]
     /\ UNCHANGED <<dailyLedgers, fmt, calls, ledger, now, nextInvoiceId, counters, seqCalls>>

\* paymentDate ? new Date(paymentDate) : new Date(), for a body without one
addFreightPayment ==
  \E id \in InvoiceIds, amount \in Amounts : addFreightPaymentReq(id, amount, now)

\* DELETE /api/freight-invoices/:id: FreightInvoice.findByIdAndDelete(id);
\* the route asks for requireEmployee only and no payment is removed
deleteFreightInvoiceReq(user, id) ==
  LET st == IF requireEmployee(user) # 200 THEN requireEmployee(user)
            ELSE IF isFreight(invoices, id) THEN 200 ELSE 404
  IN /\ invoices' = IF st = 200 THEN [invoices EXCEPT ![id] = NoInvoice] ELSE invoices
     /\ res' = [op |-> "deleteFreightInvoice", status |-> st]
     /\ UNCHANGED <<dailyLedgers, fmt, calls, ledger, now, payments, nextInvoiceId, nextPaymentId, counters, seqCalls>>

deleteFreightInvoice ==
  \E user \in Users, id \in InvoiceIds : deleteFreightInvoiceReq(user, id)

\* --------------------------------------------------- Dubai clearance
ClearanceAmounts == {1000, 2000}

\* new DubaiClearanceInvoice({...}) with the schema defaults; amount_pkr of
\* the body is no schema path (a virtual) and is dropped
newDubaiClearanceInvoice(number, amount_aed, conversion_rate, due_date) ==
  [type |-> "DubaiClearance", invoice_number |-> number, amount_aed |-> amount_aed,
   conversion_rate |-> conversion_rate, due_date |-> due_date, paid_amount_aed |-> 0,
   outstanding_amount_aed |-> 0, status |-> "unpaid", last_payment_date |-> NoDate]

\* the min validators of dubaiClearanceInvoiceSchema
clearanceValid(doc) ==
  /\ doc.amount_aed >= MinPayment
  /\ doc.conversion_rate > 0
  /\ doc.paid_amount_aed >= 0
  /\ doc.outstanding_amount_aed >= 0

\* dubaiClearanceInvoiceSchema.pre('save')
clearancePreSave(doc, t) ==
  LET outstanding_amount_aed == doc.amount_aed - doc.paid_amount_aed
  IN [doc EXCEPT !.outstanding_amount_aed = outstanding_amount_aed,
                 !.status = IF outstanding_amount_aed <= 0 THEN "paid"
                            ELSE IF doc.paid_amount_aed > 0 THEN "partially_paid"
                            ELSE IF doc.due_date < t THEN "overdue"
                            ELSE "unpaid"]

isClearance(invs, id) == invs[id].type = "DubaiClearance"

\* POST /api/dubai-clearance-invoices
createDubaiClearanceInvoiceReq(amount_aed, conversion_rate, due_date) ==
  LET ctrs == getNextSequence(counters, "dubai_clearance_invoice")
      doc == newDubaiClearanceInvoice(
               formatInvoiceNumber("DC", 4, ctrs["dubai_clearance_invoice"]),
               amount_aed, conversion_rate, due_date)
  IN /\ nextInvoiceId \in StoredIds
     /\ counters' = ctrs
     /\ invoices' = IF clearanceValid(doc)
                    THEN [invoices EXCEPT ![nextInvoiceId] = clearancePreSave(doc, now)]
                    ELSE invoices
     /\ nextInvoiceId' = IF clearanceValid(doc) THEN nextInvoiceId + 1 ELSE nextInvoiceId
     /\ res' = [op |-> "createDubaiClearanceInvoice",
               status |-> IF clearanceValid(doc) THEN 201 ELSE 500]
     /\ UNCHANGED <<dailyLedgers, fmt, calls, ledger, now, payments, nextPaymentId, seqCalls>>

createDubaiClearanceInvoice ==
  \E amount_aed \in ClearanceAmounts, due_date \in Dates :
    nextInvoiceId <= MaxInvoices /\ createDubaiClearanceInvoiceReq(amount_aed, 1, due_date)

\* dubaiClearanceInvoiceSchema.pre('findOneAndUpdate'): this is the query,
\* which has no amount_aed or paid_amount_aed, so a side the update does not
\* carry is undefined and the difference is NaN.  The result says which
\* fields the hook adds to the update and whether outstanding is NaN.
clearancePreFindOneAndUpdate(update) ==
  IF "amount_aed" \in DOMAIN update \/ "paid_amount_aed" \in DOMAIN update
  THEN IF "amount_aed" \in DOMAIN update /\ "paid_amount_aed" \in DOMAIN update
       THEN [nan |-> FALSE,
             set |-> [outstanding_amount_aed |-> update.amount_aed - update.paid_amount_aed,
                      status |-> IF update.amount_aed - update.paid_amount_aed <= 0 THEN "paid"
                                 ELSE IF update.paid_amount_aed > 0 THEN "partially_paid"
                                 ELSE "unpaid"]]
       ELSE [nan |-> TRUE, set |-> [status |-> "unpaid"]]
  ELSE [nan |-> FALSE, set |-> <<>>]

\* findByIdAndUpdate(id, {...}, {new: true, runValidators: true}): the hook,
\* then the cast of the update, which rejects NaN for a Number path
updateDubaiClearanceInvoiceStatus(id, update) ==
  IF clearancePreFindOneAndUpdate(update).nan THEN 500
  ELSE IF ~isClearance(invoices, id) THEN 404
  ELSE IF update.amount_aed >= MinPayment /\ update.conversion_rate > 0 THEN 200
  ELSE 500

\* PUT /api/dubai-clearance-invoices/:id
updateDubaiClearanceInvoiceReq(id, amount_aed, conversion_rate, due_date) ==
  LET update == [amount_aed |-> amount_aed, conversion_rate |-> conversion_rate,
                 due_date |-> due_date]
      hook == clearancePreFindOneAndUpdate(update)
  IN /\ invoices' = IF updateDubaiClearanceInvoiceStatus(id, update) = 200
                    THEN [invoices EXCEPT ![id] = hook.set @@ update @@ invoices[id]]
                    ELSE invoices
     /\ res' = [op |-> "updateDubaiClearanceInvoice",
               status |-> updateDubaiClearanceInvoiceStatus(id, update)]
     /\ UNCHANGED <<dailyLedgers, fmt, calls, ledger, now, payments, nextInvoiceId, nextPaymentId, counters, seqCalls>>

updateDubaiClearanceInvoice ==
  \E id \in InvoiceIds, amount_aed \in ClearanceAmounts, due_date \in Dates :
    updateDubaiClearanceInvoiceReq(id, amount_aed, 1, due_date)

\* dubaiClearanceInvoiceSchema.methods.addPayment: the payment it saves
clearancePaymentRecord(id, paymentData) ==
  [invoice |-> id, amount |-> paymentData.amount_aed, discount |-> 0,
   paymentDate |-> paymentData.paymentDate]

\* dubaiClearanceInvoiceSchema.methods.addPayment: the invoice before this.save()
clearanceWithPayment(doc, paymentData, t) ==
  LET paid_amount_aed == doc.paid_amount_aed + paymentData.amount_aed
      outstanding_amount_aed == doc.amount_aed - paid_amount_aed
  IN [doc EXCEPT !.paid_amount_aed = paid_amount_aed,
                 !.outstanding_amount_aed = outstanding_amount_aed,
                 !.last_payment_date = paymentData.paymentDate,
                 !.status = IF outstanding_amount_aed <= 0 THEN "paid"
                            ELSE IF paid_amount_aed > 0 THEN "partially_paid"
                            ELSE IF doc.due_date < t THEN "overdue"
                            ELSE "unpaid"]

\* the route's validators, then the controller, which checks nothing
\* about the amount before invoice.addPayment
addDubaiClearancePaymentStatus(id, amount_aed, paymentDate) ==
  IF amount_aed < MinPayment THEN 400
  ELSE IF ~isClearance(invoices, id) THEN 404
  ELSE IF clearanceValid(clearanceWithPayment(invoices[id],
                           [amount_aed |-> amount_aed, paymentDate |-> paymentDate], now))
  THEN 200 ELSE 500

\* POST /api/dubai-clearance-invoices/:id/payments
addDubaiClearancePaymentReq(id, amount_aed, paymentDate) ==
  LET st == addDubaiClearancePaymentStatus(id, amount_aed, paymentDate)
      paymentData == [amount_aed |-> amount_aed, paymentDate |-> paymentDate]
  IN /\ nextPaymentId <= MaxPayments
     /\ payments' = IF st \in {200, 500}
                    THEN [payments EXCEPT ![nextPaymentId] = clearancePaymentRecord(id, paymentData)]
                    ELSE payments
     /\ nextPaymentId' = IF st \in {200, 500} THEN nextPaymentId + 1 ELSE nextPaymentId
     /\ invoices' = IF st = 200
                    THEN [invoices EXCEPT ![id] =
                            clearancePreSave(clearanceWithPayment(invoices[id], paymentData, now), now)]
                    ELSE invoices
     /\ res' = [op |-> "addDubaiClearancePayment", status |-> st]
     /\ UNCHANGED <<dailyLedgers, fmt, calls, ledger, now, nextInvoiceId, counters, seqCalls>>

\* the payment is dated the day it is entered
addDubaiClearancePayment ==
  \E id \in InvoiceIds, amount_aed \in Amounts :
    addDubaiClearancePaymentReq(id, amount_aed, now)

\* DELETE /api/dubai-clearance-invoices/:id: findByIdAndDelete, then
\* DubaiClearancePayment.deleteMany({ invoiceId })
deleteDubaiClearanceInvoiceReq(user, id) ==
  LET st == IF requireEmployee(user) # 200 THEN requireEmployee(user)
            ELSE IF isClearance(invoices, id) THEN 200 ELSE 404
  IN /\ invoices' = IF st = 200 THEN [invoices EXCEPT ![id] = NoInvoice] ELSE invoices
     /\ payments' = IF st = 200 THEN paymentsRemovedOf(payments, id) ELSE payments
     /\ res' = [op |-> "deleteDubaiClearanceInvoice", status |-> st]
     /\ UNCHANGED <<dailyLedgers, fmt, calls, ledger, now, nextInvoiceId, nextPaymentId, counters, seqCalls>>

deleteDubaiClearanceInvoice ==
  \E user \in Users, id \in InvoiceIds : deleteDubaiClearanceInvoiceReq(user, id)

\* ------------------------------------------- concurrent sequence calls
\* a caller starts Counter.getNextSequence(name): the update is in flight
callGetNextSequence(c, name) ==
  /\ seqCalls[c].pc = "idle"
  /\ seqCalls' = [seqCalls EXCEPT ![c] = [pc |-> "pending", name |-> name]]
  /\ UNCHANGED <<dailyLedgers, fmt, calls, ledger, now, invoices, payments, nextInvoiceId, nextPaymentId, counters, res>>

\* the store runs the caller's findByIdAndUpdate and the caller gets
\* counter.sequence of the document the update returned
returnGetNextSequence(c) ==
  /\ seqCalls[c].pc = "pending"
  /\ counters' = getNextSequence(counters, seqCalls[c].name)
  /\ seqCalls' = [seqCalls EXCEPT ![c] = [pc |-> "done", name |-> seqCalls[c].name,
                                          sequence |-> counters'[seqCalls[c].name]]]
  /\ UNCHANGED <<dailyLedgers, fmt, calls, ledger, now, invoices, payments, nextInvoiceId, nextPaymentId, res>>

\* the clock: new Date() grows between requests
Tick ==
  /\ now < MaxTime
  /\ now' = now + 1
  /\ UNCHANGED <<dailyLedgers, fmt, calls, ledger, invoices, payments, nextInvoiceId, nextPaymentId, counters, seqCalls, res>>

CounterKeys == {"invoiceNumber", "freight_invoice", "dubai_clearance_invoice"}

\* the store and the requests before the first request
InitStore ==
  /\ now = 0
  /\ invoices = [i \in StoredIds |-> NoInvoice]
  /\ payments = [p \in PaymentIds |-> NoPayment]
  /\ nextInvoiceId = 1
  /\ nextPaymentId = 1
  /\ counters = [k \in CounterKeys |-> 0]
  /\ seqCalls = [c \in SeqCallers |-> [pc |-> "idle"]]
  /\ res = [op |-> "none", status |-> 0]
  /\ calls = [c \in Racers |-> [pc |-> "idle"]]
  /\ ledger = <<>>
  /\ dailyLedgers = [d \in Dates |-> NoLedger]

Init ==
  /\ InitStore
  /\ fmt = [input |-> NoValue, once |-> NoValue, twice |-> NoValue]

Next ==
  \/ createSale
  \/ createSaleDiscount
  \/ updateSale
  \/ addPayment
  \/ deletePayment
  \/ deleteSale
  \/ createFreightInvoice
  \/ updateFreightInvoice
  \/ addFreightPayment
  \/ deleteFreightInvoice
  \/ createDubaiClearanceInvoice
  \/ updateDubaiClearanceInvoice
  \/ addDubaiClearancePayment
  \/ deleteDubaiClearanceInvoice
  \/ Tick

Spec == Init /\ [][Next]_vars

\* concurrent callers of Counter.getNextSequence, nothing else running
callSequence == \E c \in SeqCallers, name \in CounterKeys : callGetNextSequence(c, name)

returnSequence == \E c \in SeqCallers : returnGetNextSequence(c)

NextSeq ==
  \/ callSequence
  \/ returnSequence

SpecSeq == Init /\ [][NextSeq]_vars

\* the requests that set, generate or free an invoice number, on up to
\* MaxNumbered invoices; the other fields of the bodies are fixed
GivenNumbers == {NoNumber, <<"INV", <<0, 0, 0, 0, 0, 1>>>>, <<"A", <<7>>>>}
GivenFreightNumbers == {<<"FR", <<0, 0, 0, 2>>>>}
NumberedLine == [quantity |-> 1, rate |-> 1000, vatPercentage |-> 0]

createSaleNumbered ==
  \E given \in GivenNumbers : createSaleReq(TRUE, given, NumberedLine, 0, 0)

updateSaleNumbered ==
  \E id \in StoredIds, given \in GivenNumbers : updateSaleReq(id, TRUE, given, NumberedLine, 0)

deleteSaleNumbered == \E user \in Users, id \in StoredIds : deleteSaleReq(user, id)

createFreightNumbered == createFreightInvoiceReq(2000, 1, 0)

updateFreightNumbered ==
  \E id \in StoredIds, number \in GivenFreightNumbers :
    updateFreightInvoiceReq(id, [invoice_number |-> number])

deleteFreightNumbered ==
  \E user \in Users, id \in StoredIds : deleteFreightInvoiceReq(user, id)

NextNumbers ==
  \/ createSaleNumbered
  \/ updateSaleNumbered
  \/ deleteSaleNumbered
  \/ createFreightNumbered
  \/ updateFreightNumbered
  \/ deleteFreightNumbered

SpecNumbers == Init /\ [][NextNumbers]_vars

\* the sales endpoints alone
NextSales ==
  \/ createSale
  \/ createSaleDiscount
  \/ updateSale
  \/ addPayment
  \/ deletePayment
  \/ deleteSale
  \/ Tick

SpecSales == Init /\ [][NextSales]_vars

\* ------------------------------------------------ concurrent payments
\* The payment handlers of a sale as the steps between their awaits, for
\* requests in flight at once. Each request works on the document its own
\* findById returned.

RaceLine == [quantity |-> 3, rate |-> 1000, vatPercentage |-> 0]
RaceAmounts == {1000, 2000}

\* the update doc.save() sends for a loaded document: the paths whose value
\* was changed since it was loaded, set over the stored document
savedOver(stored, loaded, doc) ==
  [f \in DOMAIN stored |-> IF doc[f] # loaded[f] THEN doc[f] ELSE stored[f]]

\* POST /api/sales of the one sale the requests work on
createSaleRace ==
  nextInvoiceId <= MaxInvoices /\ createSaleReq(TRUE, NoNumber, RaceLine, 0, 0)

\* addPayment up to the call of sale.addPayment: Sales.findById and the guards
addPaymentFindSale(c, id, amount, paymentMethod) ==
  LET st == IF amount < MinPayment THEN 400
            ELSE IF ~isSale(invoices, id) THEN 404
            ELSE IF addPaymentCheck(invoices[id], amount, 0) # "ok" THEN 400
            ELSE 200
  IN /\ calls[c].pc = "idle"
     /\ calls' = IF st = 200
                 THEN [calls EXCEPT ![c] =
                         [pc |-> "payment.save", op |-> "addPayment", saleId |-> id,
                          sale |-> invoices[id], amount |-> amount,
                          paymentMethod |-> paymentMethod]]
                 ELSE calls
     /\ res' = IF st = 200 THEN res
               ELSE [op |-> "addPayment", status |-> st,
                     message |-> IF amount < MinPayment THEN "Validation error"
                                 ELSE IF ~isSale(invoices, id) THEN "Sale not found"
                                 ELSE addPaymentCheck(invoices[id], amount, 0)]
     /\ UNCHANGED <<dailyLedgers, fmt, ledger, now, invoices, payments, nextInvoiceId, nextPaymentId, counters,
                    seqCalls>>

\* salesSchema.methods.addPayment: await payment.save()
addPaymentSavePayment(c) ==
  /\ calls[c].pc = "payment.save"
  /\ nextPaymentId <= MaxPayments
  /\ payments' = [payments EXCEPT ![nextPaymentId] =
                    salePaymentRecord(calls[c].saleId,
                                      [amount |-> calls[c].amount, paymentDate |-> now])]
  /\ nextPaymentId' = nextPaymentId + 1
  /\ calls' = [calls EXCEPT ![c] =
                 [pc |-> "sale.save", op |-> "addPayment", saleId |-> calls[c].saleId,
                  sale |-> calls[c].sale, amount |-> calls[c].amount,
                  paymentMethod |-> calls[c].paymentMethod, paymentId |-> nextPaymentId]]
  /\ UNCHANGED <<dailyLedgers, fmt, ledger, now, invoices, nextInvoiceId, counters, seqCalls, res>>

\* salesSchema.methods.addPayment: the amounts set on the loaded document
\* and await this.save(); then createSalesPaymentEntry and the response
addPaymentSaveSale(c) ==
  LET id == calls[c].saleId
      paymentData == [amount |-> calls[c].amount, paymentDate |-> now]
      doc == salesPreSave(saleWithPayment(calls[c].sale, paymentData, now), now)
      st == IF isSale(invoices, id) /\ saleSaveOk(invoices, id, doc) THEN 200 ELSE 500
  IN /\ calls[c].pc = "sale.save"
     /\ calls[c].op = "addPayment"
     /\ invoices' = IF st = 200
                    THEN [invoices EXCEPT ![id] = savedOver(invoices[id], calls[c].sale, doc)]
                    ELSE invoices
     /\ ledger' = IF st = 200
                  THEN createSalesPaymentEntry(ledger, id, calls[c].amount,
                                               calls[c].paymentMethod)
                  ELSE ledger
     /\ res' = [op |-> "addPayment", status |-> st,
               message |-> IF st = 200 THEN "Payment added successfully" ELSE "Server error"]
     /\ calls' = [calls EXCEPT ![c] = [pc |-> "idle"]]
     /\ UNCHANGED <<dailyLedgers, fmt, now, payments, nextInvoiceId, nextPaymentId, counters, seqCalls>>

\* deletePayment: the caller checks and Sales.findById
deletePaymentFindSale(c, user, saleId, paymentId) ==
  LET st == IF adminCheck(user) # 200 THEN adminCheck(user)
            ELSE IF ~isSale(invoices, saleId) THEN 404 ELSE 200
  IN /\ calls[c].pc = "idle"
     /\ calls' = IF st = 200
                 THEN [calls EXCEPT ![c] =
                         [pc |-> "Payment.findById", op |-> "deletePayment",
                          saleId |-> saleId, sale |-> invoices[saleId],
                          paymentId |-> paymentId]]
                 ELSE calls
     /\ res' = IF st = 200 THEN res ELSE [op |-> "deletePayment", status |-> st]
     /\ UNCHANGED <<dailyLedgers, fmt, ledger, now, invoices, payments, nextInvoiceId, nextPaymentId, counters,
                    seqCalls>>

\* deletePayment: Payment.findById and the checks on the payment
deletePaymentFindPayment(c) ==
  LET st == IF payments[calls[c].paymentId] = NoPayment THEN 404
            ELSE IF payments[calls[c].paymentId].invoice # calls[c].saleId THEN 400
            ELSE 200
  IN /\ calls[c].pc = "Payment.findById"
     /\ calls' = [calls EXCEPT ![c] =
                    IF st = 200 THEN [calls[c] EXCEPT !.pc = "Payment.findByIdAndDelete"]
                    ELSE [pc |-> "idle"]]
     /\ res' = IF st = 200 THEN res ELSE [op |-> "deletePayment", status |-> st]
     /\ UNCHANGED <<dailyLedgers, fmt, ledger, now, invoices, payments, nextInvoiceId, nextPaymentId, counters,
                    seqCalls>>

\* deletePayment: await Payment.findByIdAndDelete(paymentId)
deletePaymentRemove(c) ==
  /\ calls[c].pc = "Payment.findByIdAndDelete"
  /\ payments' = paymentRemoved(payments, calls[c].paymentId)
  /\ calls' = [calls EXCEPT ![c] = [calls[c] EXCEPT !.pc = "Payment.find"]]
  /\ UNCHANGED <<dailyLedgers, fmt, ledger, now, invoices, nextInvoiceId, nextPaymentId, counters, seqCalls, res>>

\* deletePayment: await Payment.find({ saleId }) and the recalculation on
\* the loaded document
deletePaymentFindRemaining(c) ==
  /\ calls[c].pc = "Payment.find"
  /\ calls' = [calls EXCEPT ![c] =
                 [pc |-> "sale.save", op |-> "deletePayment", saleId |-> calls[c].saleId,
                  sale |-> calls[c].sale, paymentId |-> calls[c].paymentId,
                  doc |-> saleRecalculated(calls[c].sale, payments, calls[c].saleId, now)]]
  /\ UNCHANGED <<dailyLedgers, fmt, ledger, now, invoices, payments, nextInvoiceId, nextPaymentId, counters,
                 seqCalls, res>>

\* deletePayment: await sale.save() and the response
deletePaymentSaveSale(c) ==
  LET id == calls[c].saleId
      doc == salesPreSave(calls[c].doc, now)
      st == IF isSale(invoices, id) /\ saleSaveOk(invoices, id, doc) THEN 200 ELSE 500
  IN /\ calls[c].pc = "sale.save"
     /\ calls[c].op = "deletePayment"
     /\ invoices' = IF st = 200
                    THEN [invoices EXCEPT ![id] = savedOver(invoices[id], calls[c].sale, doc)]
                    ELSE invoices
     /\ res' = [op |-> "deletePayment", status |-> st]
     /\ calls' = [calls EXCEPT ![c] = [pc |-> "idle"]]
     /\ UNCHANGED <<dailyLedgers, fmt, ledger, now, payments, nextInvoiceId, nextPaymentId, counters, seqCalls>>

addPaymentStart ==
  \E c \in Racers, id \in InvoiceIds, amount \in RaceAmounts, paymentMethod \in PaymentMethods :
    addPaymentFindSale(c, id, amount, paymentMethod)

deletePaymentStart ==
  \E c \in Racers, user \in Users, saleId \in InvoiceIds, paymentId \in PaymentIds :
    deletePaymentFindSale(c, user, saleId, paymentId)

NextRace ==
  \/ createSaleRace
  \/ addPaymentStart
  \/ \E c \in Racers : addPaymentSavePayment(c)
  \/ \E c \in Racers : addPaymentSaveSale(c)
  \/ deletePaymentStart
  \/ \E c \in Racers : deletePaymentFindPayment(c)
  \/ \E c \in Racers : deletePaymentRemove(c)
  \/ \E c \in Racers : deletePaymentFindRemaining(c)
  \/ \E c \in Racers : deletePaymentSaveSale(c)

SpecRace == Init /\ [][NextRace]_vars

\* ------------------------------------------------ the end-to-end scenario
\* quantity 10 at rate 100.000 with 5 % VAT, due at the end of the clock,
\* and the payments of 500.000 and 550.000 made on it
ScenarioLine == [quantity |-> 10, rate |-> 100000, vatPercentage |-> 5]
ScenarioAmounts == {0, 500000, 550000}

createSaleScenario ==
  nextInvoiceId <= MaxInvoices /\ createSaleReq(TRUE, NoNumber, ScenarioLine, 0, MaxTime)

addPaymentScenario ==
  \E id \in InvoiceIds, amount \in ScenarioAmounts, paymentDate \in Dates,
     paymentMethod \in PaymentMethods :
    addPaymentReq(id, amount, 0, paymentDate, paymentMethod)

NextScenario ==
  \/ createSaleScenario
  \/ addPaymentScenario
  \/ deletePayment
  \/ Tick

SpecScenario == Init /\ [][NextScenario]_vars

\* ------------------------------------------------ the number formatter
\* JavaScript values as the formatter tells them apart. A finite number is
\* held in thousandths; "nonfinite" is NaN or an Infinity; an array or a
\* plain object carries the identity (ref) the formatter's WeakSet goes by,
\* an array its items (list), an object its own keys in order (props).
Num(n) == [kind |-> "number", value |-> n]
Str(x) == [kind |-> "string", value |-> x]
Arr(ref, list) == [kind |-> "array", ref |-> ref, list |-> list]
Obj(ref, props) == [kind |-> "object", ref |-> ref, props |-> props]
Prop(key, value) == [key |-> key, value |-> value]

\* ceilToTwoDecimals(value) with its first line: a value that is not a
\* finite number is returned as it is
ceilToTwoDecimalsOf(value) ==
  IF value.kind # "number" THEN value ELSE Num(ceilToTwoDecimals(value.value))

\* toPlainObject(value) at position path: value.toJSON() where the value has
\* one. Date.prototype.toJSON gives the ISO string, ObjectId.prototype.toJSON
\* the hex string, Buffer.prototype.toJSON a new object { type, data }.
toPlainObject(value, path) ==
  IF value.kind = "date" THEN Str(<<"ISO", value.value>>)
  ELSE IF value.kind = "objectid" THEN Str(<<"hex", value.value>>)
  ELSE IF value.kind = "buffer"
  THEN Obj(<<2>> \o path,
           <<Prop("type", Str(<<"Buffer">>)),
             Prop("data", Arr(<<3>> \o path,
                              [i \in DOMAIN value.value |-> Num(value.value[i] * 1000)]))>>)
  ELSE value

RECURSIVE formatNumbersDeepSeen(_, _, _)
RECURSIVE formatItems(_, _, _, _, _)
RECURSIVE formatProps(_, _, _, _, _)

\* input.map((item) => formatNumbersDeep(toPlainObject(item), seen)) from
\* item i on: the formatted items so far in done
formatItems(list, i, done, seen, path) ==
  IF i > Len(list) THEN [out |-> done, seen |-> seen]
  ELSE LET r == formatNumbersDeepSeen(toPlainObject(list[i], path \o <<i>>), seen, path \o <<i>>)
       IN formatItems(list, i + 1, Append(done, r.out), r.seen, path)

\* the loop over Object.keys(source) from key i on
formatProps(props, i, done, seen, path) ==
  IF i > Len(props) THEN [out |-> done, seen |-> seen]
  ELSE LET value == props[i].value
           r == IF value.kind = "number"
                THEN [out |-> ceilToTwoDecimalsOf(value), seen |-> seen]
                ELSE formatNumbersDeepSeen(toPlainObject(value, path \o <<i>>), seen,
                                           path \o <<i>>)
       IN formatProps(props, i + 1, Append(done, Prop(props[i].key, r.out)), r.seen, path)

\* formatNumbersDeep(input, seen) at position path: the value returned and
\* the WeakSet after the call. The arrays and objects it builds are new
\* ones, identified here by their position.
formatNumbersDeepSeen(input, seen, path) ==
  IF input.kind \in {"number", "nonfinite"} THEN [out |-> ceilToTwoDecimalsOf(input), seen |-> seen]
  ELSE IF input.kind \in {"null", "undefined", "string", "boolean"}
  THEN [out |-> input, seen |-> seen]
  ELSE IF input.kind \in {"date", "buffer", "objectid"} THEN [out |-> input, seen |-> seen]
  ELSE IF input.ref \in seen THEN [out |-> input, seen |-> seen]
  ELSE IF input.kind = "array"
  THEN LET r == formatItems(input.list, 1, <<>>, seen \cup {input.ref}, path)
       IN [out |-> Arr(<<1>> \o path, r.out), seen |-> r.seen]
  ELSE LET r == formatProps(input.props, 1, <<>>, seen \cup {input.ref}, path)
       IN [out |-> Obj(<<1>> \o path, r.out), seen |-> r.seen]

\* formatNumbersDeep(input), seen = new WeakSet()
formatNumbersDeep(input) == formatNumbersDeepSeen(input, {}, <<>>).out

\* the leaves of the payloads
NumberLeaves == {Num(1001), Num(1200), Num(-1005), Num(2000)}
OtherLeaves ==
  { [kind |-> "nonfinite", value |-> "NaN"], Str(<<"abc">>), [kind |-> "boolean", value |-> TRUE],
    [kind |-> "null"], [kind |-> "date", value |-> 0], [kind |-> "objectid", value |-> 7],
    [kind |-> "buffer", value |-> <<1, 2>>] }
Leaves == NumberLeaves \cup OtherLeaves

\* the arrays and objects of one leaf, of a given identity
Inner(ref) == {Arr(ref, <<x>>) : x \in Leaves} \cup {Obj(ref, <<Prop("n", x)>>) : x \in Leaves}
Items == Leaves \cup Inner(<<0, 1>>) \cup Inner(<<0, 2>>)

\* x and y can stand in one payload: the same identity is the same value
together(x, y) ==
  (x.kind \in {"array", "object"} /\ y.kind \in {"array", "object"} /\ x.ref = y.ref) => x = y

\* the payloads handed to the formatter: a leaf, or an array or an object
\* of two items, the same inner array or object twice included
Payloads ==
  Leaves
  \cup {Arr(<<0, 0>>, <<xy[1], xy[2]>>) :
          xy \in {z \in Items \X Items : together(z[1], z[2])}}
  \cup {Obj(<<0, 0>>, <<Prop("a", xy[1]), Prop("b", xy[2])>>) :
          xy \in {z \in Items \X Items : together(z[1], z[2])}}

\* the values the rounding is applied to
CeilInputs == {Num(n) : n \in (0 - MaxMoney)..MaxMoney} \cup OtherLeaves

\* res.json of a payload: formatNumbersDeep applied to it
formatOnce ==
  /\ fmt.input # NoValue /\ fmt.once = NoValue
  /\ fmt' = [fmt EXCEPT !.once = formatNumbersDeep(fmt.input)]
  /\ UNCHANGED <<dailyLedgers, now, invoices, payments, nextInvoiceId, nextPaymentId, counters, seqCalls,
                 res, calls, ledger>>

\* formatNumbersDeep applied to its own output
formatTwice ==
  /\ fmt.once # NoValue /\ fmt.twice = NoValue
  /\ fmt' = [fmt EXCEPT !.twice = formatNumbersDeep(fmt.once)]
  /\ UNCHANGED <<dailyLedgers, now, invoices, payments, nextInvoiceId, nextPaymentId, counters, seqCalls,
                 res, calls, ledger>>

\* ceilToTwoDecimals applied to a value
ceilOnce ==
  /\ fmt.input # NoValue /\ fmt.once = NoValue
  /\ fmt' = [fmt EXCEPT !.once = ceilToTwoDecimalsOf(fmt.input)]
  /\ UNCHANGED <<dailyLedgers, now, invoices, payments, nextInvoiceId, nextPaymentId, counters, seqCalls,
                 res, calls, ledger>>

InitFormat ==
  /\ InitStore
  /\ \E input \in Payloads : fmt = [input |-> input, once |-> NoValue, twice |-> NoValue]

NextFormat ==
  \/ formatOnce
  \/ formatTwice

SpecFormat == InitFormat /\ [][NextFormat]_vars

InitCeil ==
  /\ InitStore
  /\ \E input \in CeilInputs : fmt = [input |-> input, once |-> NoValue, twice |-> NoValue]

NextCeil == ceilOnce

SpecCeil == InitCeil /\ [][NextCeil]_vars

\* ------------------------------------------------ the TRN rule
\* what Customer.findOne returns for the customer named in the request: no
\* document, or a customer whose trn is missing or a string of characters
NoCustomer == [found |-> FALSE]
NoTrn == <<"undefined">>
Customers ==
  { NoCustomer,
    [found |-> TRUE, trn |-> NoTrn],
    [found |-> TRUE, trn |-> <<>>],
    [found |-> TRUE, trn |-> <<" ", " ">>],
    [found |-> TRUE, trn |-> <<" ", "1", " ">>],
    [found |-> TRUE, trn |-> <<"1", "0", "0">>] }

RECURSIVE trimStart(_)
\* String.prototype.trim, the leading part
trimStart(str) ==
  IF str # <<>> /\ Head(str) = " " THEN trimStart(Tail(str)) ELSE str

RECURSIVE trimEnd(_)
\* String.prototype.trim, the trailing part
trimEnd(str) ==
  IF str # <<>> /\ str[Len(str)] = " " THEN trimEnd(SubSeq(str, 1, Len(str) - 1)) ELSE str

trim(str) == trimEnd(trimStart(str))

\* the rule without the trim
customerHasTrnUntrimmed(customerDoc) ==
  ~(~customerDoc.found \/ customerDoc.trn = NoTrn \/ customerDoc.trn = <<>>)

\* !(!customerDoc || !customerDoc.trn || customerDoc.trn.trim() === '')
customerHasTrn(customerDoc) ==
  ~(~customerDoc.found \/ customerDoc.trn = NoTrn \/ customerDoc.trn = <<>>
      \/ trim(customerDoc.trn) = <<>>)

createSaleTrn ==
  \E customer \in Customers, line \in SaleLines, dueDate \in Dates :
    createSaleReq(customerHasTrn(customer), NoNumber, line, 0, dueDate)

updateSaleTrn ==
  \E id \in StoredIds, customer \in Customers, line \in SaleLines, dueDate \in Dates :
    updateSaleReq(id, customerHasTrn(customer), NoNumber, line, dueDate)

NextTrn ==
  \/ createSaleTrn
  \/ updateSaleTrn
  \/ Tick

SpecTrn == Init /\ [][NextTrn]_vars

\* ------------------------------------------------ the daily ledger
\* dailyLedgers holds the DailyLedger document of each day, ledger the
\* LedgerEntry documents in the order they were saved; an entry is
\* addressed by its place in that order.
OpeningBalances == {0, 1000}
EntryTypes == {"receipt", "payment"}
EntryModes == {"cash", "bank"}
EntryAmounts == {0, 1000}

\* a day that is never closed
ledgerClosedNever(ledgers, date) == FALSE

\* dailyLedger && dailyLedger.is_closed, for the ledger findByDate returns
ledgerClosed(ledgers, date) == ledgers[date] # NoLedger /\ ledgers[date].is_closed

\* dailyLedgerSchema.pre('save')
dailyLedgerPreSave(doc) ==
  [doc EXCEPT !.closing_cash = doc.opening_cash + doc.receipts_cash + doc.auto_sales_inflow
                                 - doc.payments_cash,
              !.closing_bank = doc.opening_bank + doc.receipts_bank - doc.payments_bank]

\* dailyLedgerSchema.statics.createOrUpdate: findOneAndUpdate with upsert,
\* the schema defaults on insert; no save hook runs
createOrUpdate(ledgers, date, data) ==
  IF ledgers[date] = NoLedger
  THEN [ledgers EXCEPT ![date] =
          [date |-> date, opening_cash |-> data.opening_cash, opening_bank |-> data.opening_bank,
           receipts_cash |-> 0, receipts_bank |-> 0, payments_cash |-> 0, payments_bank |-> 0,
           auto_sales_inflow |-> 0, closing_cash |-> 0, closing_bank |-> 0, is_closed |-> FALSE]]
  ELSE [ledgers EXCEPT ![date].opening_cash = data.opening_cash,
                       ![date].opening_bank = data.opening_bank]

RECURSIVE calculateTotalsByDate(_, _, _, _)
\* LedgerEntry.calculateTotalsByDate(date), the total of one type and mode
calculateTotalsByDate(entries, date, type, mode) ==
  IF entries = <<>> THEN 0
  ELSE (IF Head(entries).ledger_date = date /\ Head(entries).type = type
           /\ Head(entries).mode = mode
        THEN Head(entries).amount ELSE 0)
       + calculateTotalsByDate(Tail(entries), date, type, mode)

\* updateDailyLedgerTotals(date): the totals of the day's entries set on
\* the ledger of the day, if there is one, and saved
updateDailyLedgerTotals(ledgers, entries, date) ==
  IF ledgers[date] = NoLedger THEN ledgers
  ELSE [ledgers EXCEPT ![date] =
          dailyLedgerPreSave(
            [ledgers[date] EXCEPT
               !.receipts_cash = calculateTotalsByDate(entries, date, "receipt", "cash"),
               !.receipts_bank = calculateTotalsByDate(entries, date, "receipt", "bank"),
               !.payments_cash = calculateTotalsByDate(entries, date, "payment", "cash"),
               !.payments_bank = calculateTotalsByDate(entries, date, "payment", "bank")])]

\* the entries without the one at place id
entryRemoved(entries, id) ==
  SubSeq(entries, 1, id - 1) \o SubSeq(entries, id + 1, Len(entries))

\* POST /api/daily-ledger
createOrUpdateDailyLedgerReq(date, opening_cash, opening_bank) ==
  LET st == IF date = NoDate THEN 400
            ELSE IF ledgerClosed(dailyLedgers, date) THEN 400
            ELSE 200
  IN /\ dailyLedgers' = IF st = 200
                        THEN createOrUpdate(dailyLedgers, date,
                               [opening_cash |-> opening_cash, opening_bank |-> opening_bank])
                        ELSE dailyLedgers
     /\ res' = [op |-> "createOrUpdateDailyLedger", status |-> st]
     /\ UNCHANGED <<now, invoices, payments, nextInvoiceId, nextPaymentId, counters, seqCalls,
                    calls, ledger, fmt>>

createOrUpdateDailyLedger ==
  \E date \in Dates \cup {NoDate}, opening_cash \in OpeningBalances :
    createOrUpdateDailyLedgerReq(date, opening_cash, 0)

\* POST /api/daily-ledger/entries
addLedgerEntryReq(ledger_date, type, mode, amount) ==
  LET st == IF ledger_date = NoDate \/ amount = 0 THEN 400
            ELSE IF dailyLedgers[ledger_date] = NoLedger THEN 400
            ELSE IF ledgerClosed(dailyLedgers, ledger_date) THEN 400
            ELSE IF amount < 0 THEN 500
            ELSE 200
      entry == [ledger_date |-> ledger_date, type |-> type, mode |-> mode, amount |-> amount,
                reference_type |-> "manual"]
  IN /\ Len(ledger) < MaxEntries
     /\ ledger' = IF st = 200 THEN Append(ledger, entry) ELSE ledger
     /\ dailyLedgers' = IF st = 200
                        THEN updateDailyLedgerTotals(dailyLedgers, Append(ledger, entry),
                                                     ledger_date)
                        ELSE dailyLedgers
     /\ res' = [op |-> "addLedgerEntry", status |-> st]
     /\ UNCHANGED <<now, invoices, payments, nextInvoiceId, nextPaymentId, counters, seqCalls,
                    calls, fmt>>

addLedgerEntry ==
  \E ledger_date \in Dates, type \in EntryTypes, mode \in EntryModes, amount \in EntryAmounts :
    addLedgerEntryReq(ledger_date, type, mode, amount)

\* DELETE /api/daily-ledger/entries/:id
deleteLedgerEntryReq(id) ==
  LET st == IF id \notin DOMAIN ledger THEN 404
            ELSE IF ledgerClosed(dailyLedgers, ledger[id].ledger_date) THEN 400
            ELSE 200
  IN /\ ledger' = IF st = 200 THEN entryRemoved(ledger, id) ELSE ledger
     /\ dailyLedgers' = IF st = 200
                        THEN updateDailyLedgerTotals(dailyLedgers, entryRemoved(ledger, id),
                                                     ledger[id].ledger_date)
                        ELSE dailyLedgers
     /\ res' = [op |-> "deleteLedgerEntry", status |-> st]
     /\ UNCHANGED <<now, invoices, payments, nextInvoiceId, nextPaymentId, counters, seqCalls,
                    calls, fmt>>

deleteLedgerEntry == \E id \in 1..MaxEntries : deleteLedgerEntryReq(id)

\* PUT /api/daily-ledger/:date/close: the ledger is loaded, the totals are
\* updated and saved through a second document, then is_closed is set on
\* the first and it is saved
closeDailyLedgerReq(date) ==
  LET st == IF dailyLedgers[date] = NoLedger THEN 404
            ELSE IF ledgerClosed(dailyLedgers, date) THEN 400
            ELSE 200
      loaded == dailyLedgers[date]
      totalled == updateDailyLedgerTotals(dailyLedgers, ledger, date)
      doc == dailyLedgerPreSave([loaded EXCEPT !.is_closed = TRUE])
  IN /\ dailyLedgers' = IF st = 200
                        THEN [totalled EXCEPT ![date] = savedOver(totalled[date], loaded, doc)]
                        ELSE dailyLedgers
     /\ res' = [op |-> "closeDailyLedger", status |-> st]
     /\ UNCHANGED <<now, invoices, payments, nextInvoiceId, nextPaymentId, counters, seqCalls,
                    calls, ledger, fmt>>

closeDailyLedger == \E date \in Dates : closeDailyLedgerReq(date)

NextLedger ==
  \/ createOrUpdateDailyLedger
  \/ addLedgerEntry
  \/ deleteLedgerEntry
  \/ closeDailyLedger

SpecLedger == Init /\ [][NextLedger]_vars

\* ================================================================ claims
\* the stored gross, received and outstanding amounts of an invoice, in
\* the currency the invoice is paid in
gross(inv) ==
  IF inv.type = "Sales" THEN inv.amount
  ELSE IF inv.type = "Freight" THEN inv.amount_pkr ELSE inv.amount_aed

received(inv) ==
  IF inv.type = "Sales" THEN inv.receivedAmount
  ELSE IF inv.type = "Freight" THEN inv.paid_amount_pkr ELSE inv.paid_amount_aed

outstanding(inv) ==
  IF inv.type = "Sales" THEN inv.outstandingAmount
  ELSE IF inv.type = "Freight" THEN inv.outstanding_amount_pkr
  ELSE inv.outstanding_amount_aed

due(inv) == IF inv.type = "Sales" THEN inv.dueDate ELSE inv.due_date

exists(id) == invoices[id].type # "none"

\* the status function of the computation rule
statusFunction(out, rec, dueDate, t) ==
  IF out <= 0 THEN "paid"
  ELSE IF rec > 0 THEN "partially_paid"
  ELSE IF t > dueDate THEN "overdue"
  ELSE "unpaid"

\* C1: for every invoice of every type, after any sequence of create,
\* update, addPayment and deletePayment requests run one at a time, the
\* stored outstanding amount is the stored gross amount minus the stored
\* received amount (the raw difference, not clamped at 0); a freight
\* invoice keeps this in both of its currencies.
C1_OutstandingIsGrossMinusReceived ==
  \A id \in InvoiceIds :
    /\ exists(id) => outstanding(invoices[id]) = gross(invoices[id]) - received(invoices[id])
    /\ isFreight(invoices, id) =>
         invoices[id].outstanding_amount_aed =
           invoices[id].amount_aed - invoices[id].paid_amount_aed

\* a sale that has been paid in part after one of its payments was deleted
C1_Witness ==
  \E id \in InvoiceIds :
    /\ isSale(invoices, id)
    /\ invoices[id].receivedAmount > 0
    /\ invoices[id].outstandingAmount > 0
    /\ res.op = "deletePayment" /\ res.status = 200

\* C2: in every reachable state each invoice's stored status is the status
\* function of its stored outstanding and received amounts, its due date
\* and the current time of that state.
C2_StatusIsCurrent ==
  \A id \in InvoiceIds :
    exists(id) =>
      invoices[id].status =
        statusFunction(outstanding(invoices[id]), received(invoices[id]), due(invoices[id]), now)

\* C3: in every reachable state the amounts of the payment records that
\* reference an invoice, plus their discounts, do not exceed the invoice's
\* stored gross amount.
C3_PaymentsWithinGross ==
  \A id \in InvoiceIds :
    exists(id) =>
      SumAmounts(payments, paymentsOf(payments, id))
        + SumDiscounts(payments, paymentsOf(payments, id)) <= gross(invoices[id])

\* C4: a Sales addPayment request is rejected, with no payment record
\* created and the invoice left unchanged, when amount <= 0 and
\* discount <= 0, and when amount + discount is greater than the invoice's
\* current outstanding amount.
C4_InvalidSalesPaymentRejected ==
  [][\A id \in InvoiceIds, amount \in Amounts, discount \in PayDiscounts, paymentDate \in Dates,
        paymentMethod \in PaymentMethods :
       ( /\ addPaymentReq(id, amount, discount, paymentDate, paymentMethod)
         /\ \/ amount <= 0 /\ discount <= 0
            \/ isSale(invoices, id) /\ amount + discount > invoices[id].outstandingAmount )
       => /\ res'.status \in {400, 404}
          /\ payments' = payments
          /\ invoices' = invoices]_vars

\* an overpayment against a sale with money still owed has been refused
C4_Witness ==
  /\ res.op = "addPayment"
  /\ res.status = 400
  /\ res.message = "Overpayment not allowed"
  /\ \E id \in InvoiceIds : isSale(invoices, id) /\ invoices[id].outstandingAmount > 0

\* a sale on which an edit lowered the gross amount under what its payments sum to
C3_Witness ==
  /\ res.op = "updateSale" /\ res.status = 200
  /\ \E id \in InvoiceIds :
       /\ isSale(invoices, id)
       /\ invoices[id].amount >= 0
       /\ SumAmounts(payments, paymentsOf(payments, id)) > invoices[id].amount

\* C5: for every invoice type, an addPayment request against an invoice
\* whose outstanding amount is <= 0 is rejected: no payment record is
\* persisted and the invoice is left as it was.
C5_PaymentOnSettledInvoiceRejected ==
  [][\A id \in InvoiceIds, amount \in Amounts :
       (exists(id) /\ outstanding(invoices[id]) <= 0
          /\ \/ \E discount \in PayDiscounts, paymentDate \in Dates,
                   paymentMethod \in PaymentMethods :
                  addPaymentReq(id, amount, discount, paymentDate, paymentMethod)
             \/ addFreightPaymentReq(id, amount, now)
             \/ addDubaiClearancePaymentReq(id, amount, now))
       => /\ payments' = payments
          /\ invoices' = invoices]_vars

\* a payment record of a Dubai clearance invoice was persisted although the
\* invoice was already settled and stays as it was
C5_Witness ==
  /\ res.op = "addDubaiClearancePayment" /\ res.status = 500
  /\ \E id \in InvoiceIds :
       /\ isClearance(invoices, id)
       /\ invoices[id].outstanding_amount_aed = 0
       /\ SumAmounts(payments, paymentsOf(payments, id)) > invoices[id].paid_amount_aed

\* C6: after a successful Sales deletePayment the stored receivedAmount is
\* the exact sum of the amounts of the payment records that still
\* reference the invoice, and the outstanding amount and the status are
\* derived from that sum.
C6_ReceivedIsSumOfRemaining ==
  [][\A user \in Users, saleId \in InvoiceIds, paymentId \in PaymentIds :
       (deletePaymentReq(user, saleId, paymentId) /\ res'.status = 200)
       => LET sale == invoices'[saleId]
              sum == SumAmounts(payments', paymentsOf(payments', saleId))
          IN /\ sale.receivedAmount = sum
             /\ sale.outstandingAmount = sale.amount - sum
             /\ sale.status = statusFunction(sale.amount - sum, sum, sale.dueDate, now')]_vars

\* three payments were added and the middle one is deleted
C6_Witness ==
  /\ res.op = "deletePayment" /\ res.status = 200
  /\ nextPaymentId = 4
  /\ payments[2] = NoPayment
  /\ \E id \in InvoiceIds :
       /\ isSale(invoices, id)
       /\ payments[1].invoice = id /\ payments[3].invoice = id
       /\ invoices[id].receivedAmount = payments[1].amount + payments[3].amount

\* the latest date among the payment records in S, null when S is empty
maxPaymentDate(pays, S) ==
  IF S = {} THEN NoDate
  ELSE CHOOSE d \in {pays[p].paymentDate : p \in S} : \A p \in S : pays[p].paymentDate <= d

\* C7: after a successful Sales deletePayment the invoice's
\* lastPaymentDate is the maximum paymentDate over the payment records
\* that still reference the invoice, and null when none remains.
C7_LastPaymentDateIsMaxOfRemaining ==
  [][\A user \in Users, saleId \in InvoiceIds, paymentId \in PaymentIds :
       (deletePaymentReq(user, saleId, paymentId) /\ res'.status = 200)
       => invoices'[saleId].lastPaymentDate = maxPaymentDate(payments', paymentsOf(payments', saleId))]_vars

\* a payment was deleted and, of the two that remain, the later one is the
\* one added first
C7_Witness ==
  /\ res.op = "deletePayment" /\ res.status = 200
  /\ \E id \in InvoiceIds, p \in PaymentIds, q \in PaymentIds :
       /\ isSale(invoices, id)
       /\ p < q
       /\ payments[p].invoice = id /\ payments[q].invoice = id
       /\ payments[p].paymentDate > payments[q].paymentDate
       /\ invoices[id].lastPaymentDate = payments[p].paymentDate

\* the amounts the computation rule gives a sale: the VAT on quantity*rate
\* and the gross amount, clamped at 0
ruleAmounts(sale) ==
  /\ sale.vatAmount = (sale.quantity * sale.rate * sale.vatPercentage) \div 100
  /\ sale.amount = Max(0, sale.quantity * sale.rate + sale.vatAmount - sale.discount)

\* C8: after every successful Sales create or update the stored vatAmount
\* is quantity*rate*vatPercentage/100 and the stored gross amount is
\* max(0, quantity*rate + vatAmount - discount), so never negative.
C8_SaleAmountsFollowRule ==
  [][/\ \A trn \in BOOLEAN, given \in ProvidedNumbers, line \in SaleLines,
           discount \in SaleDiscounts, dueDate \in Dates :
          (createSaleReq(trn, given, line, discount, dueDate) /\ res'.status = 201)
          => ruleAmounts(invoices'[nextInvoiceId]) /\ invoices'[nextInvoiceId].amount >= 0
     /\ \A id \in InvoiceIds, trn \in BOOLEAN, given \in ProvidedNumbers, line \in SaleLines,
           dueDate \in Dates :
          (updateSaleReq(id, trn, given, line, dueDate) /\ res'.status = 200)
          => ruleAmounts(invoices'[id]) /\ invoices'[id].amount >= 0]_vars

\* a sale created with a discount above quantity*rate + VAT is stored with
\* a negative gross amount
C8_Witness ==
  /\ res.op = "createSale" /\ res.status = 201
  /\ \E id \in InvoiceIds :
       /\ isSale(invoices, id)
       /\ invoices[id].discount > invoices[id].quantity * invoices[id].rate + invoices[id].vatAmount
       /\ invoices[id].amount < 0

\* C9 as stated: immediately after any successful creation the new invoice
\* has status unpaid, received amount 0 and outstanding amount equal to
\* its gross amount.
C9_CreatedUnpaid ==
  [][\A id \in InvoiceIds :
       (~exists(id) /\ invoices'[id].type # "none")
       => /\ invoices'[id].status = "unpaid"
          /\ received(invoices'[id]) = 0
          /\ outstanding(invoices'[id]) = gross(invoices'[id])]_vars

\* C9, amended: immediately after any successful creation the new invoice
\* has received amount 0, outstanding amount equal to its gross amount,
\* and the status the status function gives these at creation time
\* (overdue for a due date already past, paid for a gross amount <= 0,
\* unpaid otherwise).
C9_CreatedWithDerivedStatus ==
  [][\A id \in InvoiceIds :
       (~exists(id) /\ invoices'[id].type # "none")
       => /\ received(invoices'[id]) = 0
          /\ outstanding(invoices'[id]) = gross(invoices'[id])
          /\ invoices'[id].status =
               statusFunction(gross(invoices'[id]), 0, due(invoices'[id]), now')]_vars

\* an invoice was just created with a due date earlier than the creation time
C9_Witness ==
  /\ res.op \in {"createSale", "createFreightInvoice", "createDubaiClearanceInvoice"}
  /\ res.status = 201
  /\ \E id \in InvoiceIds :
       /\ exists(id)
       /\ due(invoices[id]) < now
       /\ received(invoices[id]) = 0
       /\ invoices[id].status = "overdue"

\* the callers whose getNextSequence(name) has returned
returned(name) ==
  {c \in SeqCallers : seqCalls[c].pc = "done" /\ seqCalls[c].name = name}

\* C10: for any counter key, the values that concurrent getNextSequence
\* calls have returned are pairwise distinct and form the gap-free run
\* 1..N (the first value on a missing counter is 1), whatever the order
\* in which the store runs the callers' updates.
C10_SequenceDistinctGapFree ==
  \A name \in CounterKeys :
    /\ \A c \in returned(name), d \in returned(name) :
         c # d => seqCalls[c].sequence # seqCalls[d].sequence
    /\ {seqCalls[c].sequence : c \in returned(name)} = 1..Cardinality(returned(name))

\* every caller called the same key and all of them have their value
C10_Witness ==
  \E name \in CounterKeys : returned(name) = SeqCallers

\* the stored invoice number of an invoice
numberOf(inv) == IF inv.type = "Sales" THEN inv.invoiceNumber ELSE inv.invoice_number

\* C11: the stored value of each sequence counter never decreases under
\* any request (deletions, rejected and failed creations included), and a
\* creation that generates its number takes it from a counter value above
\* every value the counter held before, so the number differs from every
\* number generated earlier, whether or not the invoice that held it
\* still exists.
C11_CountersNeverReused ==
  [][/\ \A k \in CounterKeys : counters'[k] >= counters[k]
     /\ (createSaleReq(TRUE, NoNumber, NumberedLine, 0, 0) /\ res'.status \in {201, 500})
        => /\ counters'["invoiceNumber"] > counters["invoiceNumber"]
           /\ \A k \in 1..counters["invoiceNumber"] :
                formatInvoiceNumber("INV", 6, counters'["invoiceNumber"])
                  # formatInvoiceNumber("INV", 6, k)
           /\ res'.status = 201 =>
                invoices'[nextInvoiceId].invoiceNumber =
                  formatInvoiceNumber("INV", 6, counters'["invoiceNumber"])
     /\ (createFreightInvoiceReq(2000, 1, 0) /\ res'.status \in {201, 500})
        => /\ counters'["freight_invoice"] > counters["freight_invoice"]
           /\ \A k \in 1..counters["freight_invoice"] :
                formatInvoiceNumber("FR", 4, counters'["freight_invoice"])
                  # formatInvoiceNumber("FR", 4, k)]_vars

\* the first sale was deleted and the second one got the next number
C11_Witness ==
  /\ invoices[1] = NoInvoice
  /\ isSale(invoices, 2)
  /\ invoices[2].invoiceNumber = <<"INV", <<0, 0, 0, 0, 0, 2>>>>
  /\ counters["invoiceNumber"] = 2

\* no two stored sales share an invoice number
uniqueNumbers(invs) ==
  \A i \in StoredIds, j \in StoredIds :
    (i # j /\ isSale(invs, i) /\ isSale(invs, j)) => invs[i].invoiceNumber # invs[j].invoiceNumber

\* another stored sale than id holds the number
heldByOther(id, number) ==
  \E j \in StoredIds : j # id /\ isSale(invoices, j) /\ invoices[j].invoiceNumber = number

\* C12: after any sequence of createSale and updateSale requests no two
\* stored sales share an invoice number; a create or an update that
\* supplies a number another sale holds is rejected and leaves all
\* invoices unchanged; a create without a number that yields an invoice
\* gives it a number no other invoice holds.
C12_SalesNumbersUnique ==
  [][/\ uniqueNumbers(invoices')
     /\ \A given \in GivenNumbers \ {NoNumber} :
          (createSaleReq(TRUE, given, NumberedLine, 0, 0) /\ heldByOther(0, given))
          => res'.status = 400 /\ invoices' = invoices
     /\ \A id \in StoredIds, given \in GivenNumbers \ {NoNumber} :
          (updateSaleReq(id, TRUE, given, NumberedLine, 0) /\ isSale(invoices, id)
             /\ heldByOther(id, given))
          => res'.status = 400 /\ invoices' = invoices
     /\ (createSaleReq(TRUE, NoNumber, NumberedLine, 0, 0) /\ res'.status = 201)
        => \A j \in StoredIds \ {nextInvoiceId} :
             isSale(invoices', j) =>
               invoices'[j].invoiceNumber # invoices'[nextInvoiceId].invoiceNumber]_vars

\* two sales are stored and a request that supplied the other one's number
\* was refused
C12_Witness ==
  /\ res.op \in {"createSale", "updateSale"} /\ res.status = 400
  /\ isSale(invoices, 1) /\ isSale(invoices, 2)
  /\ invoices[1].invoiceNumber # invoices[2].invoiceNumber

\* C13: once an invoice has been created no request changes its invoice
\* number; an update that carries a different number leaves the stored
\* number as it was.
C13_NumberImmutable ==
  [][\A id \in StoredIds :
       (invoices[id].type # "none" /\ invoices'[id].type # "none")
       => numberOf(invoices'[id]) = numberOf(invoices[id])]_vars

\* a sale created with a generated number holds another number after an update
C13_Witness ==
  /\ res.op = "updateSale" /\ res.status = 200
  /\ counters["invoiceNumber"] = 1
  /\ isSale(invoices, 1) /\ invoices[2] = NoInvoice
  /\ invoices[1].invoiceNumber = <<"A", <<7>>>>

\* C14: a Sales deletePayment request removes a payment only if the caller
\* has role admin and the password of the request matches the caller's
\* stored password; with another role, no password or a wrong password the
\* request fails and the payment records and the invoice are unchanged.
C14_DeletePaymentNeedsAdminPassword ==
  [][\A user \in Users, saleId \in InvoiceIds, paymentId \in PaymentIds :
       deletePaymentReq(user, saleId, paymentId)
       => /\ payments' # payments => (user.role = "admin" /\ user.password = "right")
          /\ (user.role # "admin" \/ user.password # "right")
             => /\ res'.status \in {400, 401, 403}
                /\ payments' = payments
                /\ invoices' = invoices]_vars

\* an admin's deletePayment with a wrong password was refused while the
\* sale has a payment
C14_Witness ==
  /\ res.op = "deletePayment" /\ res.status = 401
  /\ \E id \in InvoiceIds, p \in PaymentIds : isSale(invoices, id) /\ payments[p].invoice = id

\* C15: for every invoice type, a delete request from a caller who is not
\* an admin, or who supplies no matching password, leaves the invoice and
\* its payments in place.
C15_DeleteNeedsAdminPassword ==
  [][\A user \in Users, id \in InvoiceIds :
       ( /\ user.role # "admin" \/ user.password # "right"
         /\ \/ deleteSaleReq(user, id)
            \/ deleteFreightInvoiceReq(user, id)
            \/ deleteDubaiClearanceInvoiceReq(user, id) )
       => invoices' = invoices /\ payments' = payments]_vars

\* a freight invoice is gone after a DELETE that asked for no password
C15_Witness ==
  /\ res.op = "deleteFreightInvoice" /\ res.status = 200
  /\ nextInvoiceId = 2
  /\ invoices[1] = NoInvoice

\* C16: for every invoice type, once an invoice has been deleted no
\* payment record is left that references it.
C16_NoPaymentOfDeletedInvoice ==
  \A p \in PaymentIds :
    payments[p] # NoPayment => invoices[payments[p].invoice].type # "none"

\* a freight invoice was deleted and a payment record still references it
C16_Witness ==
  /\ res.op = "deleteFreightInvoice" /\ res.status = 200
  /\ \E p \in PaymentIds :
       payments[p] # NoPayment /\ invoices[payments[p].invoice] = NoInvoice

\* C17: a request that ends in an error response leaves the persisted
\* state as it was: no payment record added or removed, no invoice
\* changed, no sequence counter advanced.
C17_ErrorLeavesStateUnchanged ==
  [][res'.status >= 400 => (payments' = payments /\ invoices' = invoices /\ counters' = counters)]_vars

\* an addPayment answered with an error left a payment record whose amount
\* the invoice does not reflect
C17_Witness ==
  /\ res.op \in {"addPayment", "addFreightPayment", "addDubaiClearancePayment"}
  /\ res.status >= 400
  /\ \E id \in InvoiceIds :
       /\ exists(id)
       /\ SumAmounts(payments, paymentsOf(payments, id)) # received(invoices[id])

\* the requests of the concurrent specification have all been answered
allAnswered == \A c \in Racers : calls[c].pc = "idle"

\* C18: two concurrent addPayment requests on one invoice can each read the
\* invoice before the other writes, each pass the overpayment guard, and
\* both complete: a request that has passed the guard on the document it
\* read is never stopped afterwards - it answers 200 and stores the
\* received amount it read plus its own amount - so both payments are
\* persisted and their sum exceeds the gross amount (C18_Witness).
C18_GuardedRequestAlwaysCompletes ==
  [][\A c \in Racers :
       addPaymentSaveSale(c)
       => /\ res'.status = 200
          /\ invoices'[calls[c].saleId].receivedAmount
               = calls[c].sale.receivedAmount + calls[c].amount]_vars

\* both requests were answered 200, their two payments are persisted and
\* sum to more than the gross amount of the sale
C18_Witness ==
  /\ allAnswered
  /\ res.op = "addPayment" /\ res.status = 200
  /\ isSale(invoices, 1)
  /\ Cardinality(paymentsOf(payments, 1)) = 2
  /\ nextPaymentId = 3
  /\ SumAmounts(payments, paymentsOf(payments, 1)) > invoices[1].amount

\* C19: under every interleaving of concurrent addPayment and deletePayment
\* requests on one invoice, once all of them have completed the stored
\* received amount equals the sum of the amounts of the payment records.
C19_NoLostUpdate ==
  allAnswered
  => \A id \in InvoiceIds :
       isSale(invoices, id)
       => invoices[id].receivedAmount = SumAmounts(payments, paymentsOf(payments, id))

\* two payments of 1000 were both answered 200 and are both persisted, and
\* the sale records 1000 received
C19_Witness ==
  /\ allAnswered
  /\ res.op = "addPayment" /\ res.status = 200
  /\ isSale(invoices, 1)
  /\ nextPaymentId = 3
  /\ SumAmounts(payments, paymentsOf(payments, 1)) = 2000
  /\ invoices[1].receivedAmount = 1000

\* C20: every successful Sales addPayment is followed, before the request
\* completes, by the creation of exactly one ledger entry of type receipt
\* that references the sale and carries the payment's amount, with mode
\* cash for the payment method cash and bank for any other.
C20_PaymentEmitsLedgerEntry ==
  [][\A c \in Racers :
       (addPaymentSaveSale(c) /\ res'.status = 200)
       => /\ Len(ledger') = Len(ledger) + 1
          /\ ledger'[Len(ledger')] =
               [type |-> "receipt",
                mode |-> IF calls[c].paymentMethod = "cash" THEN "cash" ELSE "bank",
                amount |-> calls[c].amount,
                reference_type |-> "sales_payment", reference_id |-> calls[c].saleId]]_vars

\* a payment was added and answered 200 and the ledger holds no entry
C20_Witness ==
  /\ res.op = "addPayment" /\ res.status = 200
  /\ \E p \in PaymentIds : payments[p] # NoPayment /\ payments[p].invoice = 1
  /\ invoices[1].type = "Sales" /\ invoices[1].receivedAmount > 0
  /\ ledger = <<>>

\* the fields of a freight invoice that are derived from its inputs and payments
freightDerived ==
  {"amount_aed", "paid_amount_pkr", "paid_amount_aed", "outstanding_amount_pkr",
   "outstanding_amount_aed", "last_payment_date", "status"}

\* a request body with its derived fields taken out
withoutDerived(data) == [f \in DOMAIN data \ freightDerived |-> data[f]]

\* C21: the values a request body carries for the derived fields have no
\* effect: after an update whose body carries one, the stored paid amount
\* still equals the sum of the invoice's payments and the invoice is what
\* the same request without the derived fields would have stored.
C21_DerivedFieldsIgnored ==
  [][\A id \in InvoiceIds, data \in FreightBodies :
       ( /\ updateFreightInvoiceReq(id, data)
         /\ res'.status = 200
         /\ DOMAIN data \cap freightDerived # {} )
       => /\ invoices'[id].paid_amount_pkr = SumAmounts(payments', paymentsOf(payments', id))
          /\ invoices'[id] = freightPreSave(withoutDerived(data) @@ invoices[id], now)]_vars

\* a freight invoice with a payment of its own records nothing paid after
\* an update that carried paid_amount_pkr
C21_Witness ==
  /\ res.op = "updateFreightInvoice" /\ res.status = 200
  /\ \E id \in InvoiceIds :
       /\ isFreight(invoices, id)
       /\ invoices[id].paid_amount_pkr = 0
       /\ invoices[id].status = "unpaid"
       /\ SumAmounts(payments, paymentsOf(payments, id)) > 0

\* C22: for a freight invoice, after any sequence of create, update and
\* addPayment, the AED amounts are the PKR amounts divided by the
\* conversion rate: amount, paid amount and outstanding amount.
C22_AedMirrorsPkr ==
  \A id \in InvoiceIds :
    isFreight(invoices, id)
    => /\ invoices[id].amount_aed = invoices[id].amount_pkr \div invoices[id].conversion_rate
       /\ invoices[id].paid_amount_aed
            = invoices[id].paid_amount_pkr \div invoices[id].conversion_rate
       /\ invoices[id].outstanding_amount_aed
            = invoices[id].outstanding_amount_pkr \div invoices[id].conversion_rate

\* the conversion rate of a freight invoice was changed after a payment and
\* the paid amount in AED is still the one of the old rate
C22_Witness ==
  /\ res.op = "updateFreightInvoice" /\ res.status = 200
  /\ \E id \in InvoiceIds :
       /\ isFreight(invoices, id)
       /\ invoices[id].conversion_rate = 2
       /\ invoices[id].paid_amount_pkr > 0
       /\ invoices[id].paid_amount_aed = invoices[id].paid_amount_pkr

\* C23: the sale of quantity 10, rate 100, VAT 5 % and a due date ahead is
\* created with VAT 50, gross 1050, outstanding 1050 and status unpaid; a
\* payment of 500 on it gives received 500, outstanding 550 and status
\* partially_paid; a payment of 550 after that gives outstanding 0 and
\* status paid; every payment request after that is rejected and changes
\* nothing, with the error "Sale already paid" when it passes the validators.
C23_Scenario ==
  [][/\ (createSaleScenario /\ res'.status = 201)
        => /\ invoices'[nextInvoiceId].vatAmount = 50000
           /\ invoices'[nextInvoiceId].amount = 1050000
           /\ invoices'[nextInvoiceId].receivedAmount = 0
           /\ invoices'[nextInvoiceId].outstandingAmount = 1050000
           /\ invoices'[nextInvoiceId].status = "unpaid"
     /\ \A id \in InvoiceIds, amount \in ScenarioAmounts, paymentDate \in Dates,
           paymentMethod \in PaymentMethods :
          (isSale(invoices, id) /\ addPaymentReq(id, amount, 0, paymentDate, paymentMethod))
          => /\ (invoices[id].receivedAmount = 0 /\ amount = 500000)
                => /\ res'.status = 200
                   /\ invoices'[id].receivedAmount = 500000
                   /\ invoices'[id].outstandingAmount = 550000
                   /\ invoices'[id].status = "partially_paid"
             /\ (invoices[id].receivedAmount = 500000 /\ amount = 550000)
                => /\ res'.status = 200
                   /\ invoices'[id].receivedAmount = 1050000
                   /\ invoices'[id].outstandingAmount = 0
                   /\ invoices'[id].status = "paid"
             /\ invoices[id].outstandingAmount = 0
                => /\ res'.status = 400
                   /\ amount >= MinPayment => res'.message = "Sale already paid"
                   /\ invoices' = invoices
                   /\ payments' = payments]_vars

\* the scenario at its end: the payments of 500 and 550 are stored, the
\* sale is paid, and a further payment has been refused as already paid
C23_Witness ==
  /\ res.op = "addPayment" /\ res.status = 400
  /\ res.message = "Sale already paid"
  /\ isSale(invoices, 1)
  /\ invoices[1].status = "paid" /\ invoices[1].outstandingAmount = 0
  /\ payments[1] # NoPayment /\ payments[1].amount = 500000
  /\ payments[2] # NoPayment /\ payments[2].amount = 550000

\* C24: ceilToTwoDecimals maps every finite money value that is not an
\* integer to the least multiple of 0.01 that is not below it (1.001 to
\* 1.01, 1.20 to 1.2, negative values toward zero), and returns every
\* integer and every value that is not a finite number unchanged.
C24_CeilIsLeastHundredthAbove ==
  fmt.once # NoValue
  => IF fmt.input.kind = "number" /\ fmt.input.value % 1000 # 0
     THEN /\ fmt.once.kind = "number"
          /\ fmt.once.value % 10 = 0
          /\ fmt.once.value >= fmt.input.value
          /\ fmt.once.value - 10 < fmt.input.value
          /\ fmt.input.value < 0 => fmt.once.value <= 0
          /\ fmt.input.value = 1001 => fmt.once.value = 1010
          /\ fmt.input.value = 1200 => fmt.once.value = 1200
          /\ fmt.input.value = -1005 => fmt.once.value = -1000
     ELSE fmt.once = fmt.input

\* -1.005 has been rounded, to -1
C24_Witness ==
  /\ fmt.input = Num(-1005)
  /\ fmt.once = Num(-1000)
  /\ fmt.twice = NoValue

RECURSIVE shape(_, _)
\* a value without the identities of its arrays and objects; with numbers
\* FALSE every number reads 0
shape(value, numbers) ==
  IF value.kind = "number" THEN Num(IF numbers THEN value.value ELSE 0)
  ELSE IF value.kind = "array"
  THEN [kind |-> "array", list |-> [i \in DOMAIN value.list |-> shape(value.list[i], numbers)]]
  ELSE IF value.kind = "object"
  THEN [kind |-> "object",
        props |-> [i \in DOMAIN value.props |->
                     Prop(value.props[i].key, shape(value.props[i].value, numbers))]]
  ELSE value

\* C25: formatNumbersDeep is idempotent - applied to its own output it
\* returns an equal payload - and it leaves every leaf that is not a number
\* as it went in, at any depth of arrays and objects.
C25_FormatIdempotentLeavesKept ==
  /\ fmt.once # NoValue => shape(fmt.once, FALSE) = shape(fmt.input, FALSE)
  /\ fmt.twice # NoValue => shape(fmt.twice, TRUE) = shape(fmt.once, TRUE)

\* a date inside an object has come out as a string
C25_Witness ==
  /\ fmt.input.kind = "object"
  /\ fmt.input.props[1].value.kind = "date"
  /\ fmt.once.kind = "object"
  /\ fmt.once.props[1].value.kind = "string"

\* the formatter is not idempotent on an array that holds one object twice:
\* the second pass rounds the number the first pass left
C25_SharedObjectFormattedLate ==
  /\ fmt.input = Arr(<<0, 0>>, <<Obj(<<0, 1>>, <<Prop("n", Num(1001))>>),
                                 Obj(<<0, 1>>, <<Prop("n", Num(1001))>>)>>)
  /\ fmt.once # NoValue /\ fmt.twice # NoValue
  /\ fmt.once.list[2].props[1].value = Num(1001)
  /\ fmt.twice.list[2].props[1].value = Num(1010)

\* the customer of the request does not exist, or has no TRN or a blank one
withoutTrn(customer) ==
  \/ customer = NoCustomer
  \/ customer.trn = NoTrn
  \/ \A i \in DOMAIN customer.trn : customer.trn[i] = " "

\* C26: a createSale or updateSale request with vatPercentage > 0 for a
\* customer that does not exist or whose TRN is missing or blank is
\* rejected before any mutation: no invoice is created or changed and the
\* invoice-number counter is not advanced.
C26_VatSaleNeedsTrn ==
  [][\A customer \in Customers, line \in SaleLines, dueDate \in Dates :
       ( /\ line.vatPercentage > 0
         /\ withoutTrn(customer)
         /\ \/ createSaleReq(customerHasTrn(customer), NoNumber, line, 0, dueDate)
            \/ \E id \in StoredIds :
                 updateSaleReq(id, customerHasTrn(customer), NoNumber, line, dueDate) )
       => /\ res'.status = 400
          /\ invoices' = invoices
          /\ counters' = counters
          /\ nextInvoiceId' = nextInvoiceId]_vars

\* an update to a VAT line was refused on a stored sale without VAT, the
\* counter standing where the one creation left it
C26_Witness ==
  /\ res.op = "updateSale" /\ res.status = 400
  /\ isSale(invoices, 1) /\ invoices[1].vatPercentage = 0
  /\ counters["invoiceNumber"] = 1

\* C27: an accepted Sales addPayment(amount, discount) stores the discount
\* it was submitted with on the payment record and lowers the invoice's
\* outstanding amount by amount + discount, so that the outstanding amount
\* is quantity * rate + vatAmount minus the discounts and minus the amounts
\* of the invoice's payments.
C27_PaymentDiscountCounts ==
  [][\A id \in InvoiceIds, amount \in Amounts, discount \in PayDiscounts, paymentDate \in Dates,
        paymentMethod \in PaymentMethods :
       (addPaymentReq(id, amount, discount, paymentDate, paymentMethod) /\ res'.status = 200)
       => /\ payments'[nextPaymentId].discount = discount
          /\ invoices'[id].outstandingAmount
               = invoices[id].outstandingAmount - (amount + discount)
          /\ invoices[id].discount = 0
             => invoices'[id].outstandingAmount
                  = invoices'[id].quantity * invoices'[id].rate + invoices'[id].vatAmount
                    - SumDiscounts(payments', paymentsOf(payments', id))
                    - SumAmounts(payments', paymentsOf(payments', id))]_vars

\* C28: an edit of an invoice that already has payments succeeds, for every
\* invoice type, the Dubai clearance edit through findByIdAndUpdate
\* included; afterwards the stored outstanding amount is the new gross
\* amount minus the amount already paid, and the status is paid or
\* partially_paid, re-derived from that paid amount.
C28_EditWithPaymentsRederives ==
  [][\A id \in InvoiceIds :
       ( /\ exists(id)
         /\ received(invoices[id]) > 0
         /\ \/ \E trn \in BOOLEAN, given \in ProvidedNumbers, line \in SaleLines,
                  dueDate \in Dates : updateSaleReq(id, trn, given, line, dueDate)
            \/ \E data \in FreightBodies : updateFreightInvoiceReq(id, data)
            \/ \E amount_aed \in ClearanceAmounts, due_date \in Dates :
                 updateDubaiClearanceInvoiceReq(id, amount_aed, 1, due_date) )
       => /\ res'.status = 200
          /\ outstanding(invoices'[id]) = gross(invoices'[id]) - received(invoices[id])
          /\ invoices'[id].status
               = IF outstanding(invoices'[id]) <= 0 THEN "paid" ELSE "partially_paid"]_vars

\* the edit of a Dubai clearance invoice with a payment on it was answered
\* with an error and the invoice is as the payment left it
C28_Witness ==
  /\ res.op = "updateDubaiClearanceInvoice" /\ res.status >= 400
  /\ \E id \in InvoiceIds :
       /\ isClearance(invoices, id)
       /\ invoices[id].paid_amount_aed > 0
       /\ invoices[id].status = "partially_paid"

\* C29: with requests executed one at a time, after any sequence of
\* createSale, updateSale, addPayment and deletePayment each sale's stored
\* receivedAmount is the sum of the amounts of the payment records that
\* reference it, 0 when there are none.
C29_ReceivedIsSumOfPayments ==
  \A id \in InvoiceIds :
    isSale(invoices, id)
    => invoices[id].receivedAmount = SumAmounts(payments, paymentsOf(payments, id))

\* a deletePayment answered with an error has removed the payment record
\* and left the sale's received amount as it was, above the sum of the
\* payments that remain
C29_Witness ==
  /\ res.op = "deletePayment" /\ res.status = 500
  /\ isSale(invoices, 1)
  /\ payments[1] = NoPayment
  /\ invoices[1].receivedAmount > SumAmounts(payments, paymentsOf(payments, 1))

\* the ledger entries of a day, in order
entriesOf(entries, date) == SelectSeq(entries, LAMBDA e : e.ledger_date = date)

\* C30: a daily ledger that has been closed is never reopened, and every
\* later request to change its opening balances, to add an entry for its
\* date, to delete one of its entries or to close it again is rejected and
\* leaves the ledger and its entries unchanged.
C30_ClosedLedgerStaysClosed ==
  [][\A date \in Dates :
       (dailyLedgers[date] # NoLedger /\ dailyLedgers[date].is_closed)
       => /\ dailyLedgers'[date] = dailyLedgers[date]
          /\ entriesOf(ledger', date) = entriesOf(ledger, date)
          /\ ( \/ \E opening_cash \in OpeningBalances :
                    createOrUpdateDailyLedgerReq(date, opening_cash, 0)
               \/ \E type \in EntryTypes, mode \in EntryModes, amount \in EntryAmounts :
                    addLedgerEntryReq(date, type, mode, amount)
               \/ \E id \in DOMAIN ledger :
                    ledger[id].ledger_date = date /\ deleteLedgerEntryReq(id)
               \/ closeDailyLedgerReq(date) )
             => res'.status = 400]_vars

\* the deletion of an entry of a closed ledger was refused: the ledger is
\* closed and its entry is in place
C30_Witness ==
  /\ res.op = "deleteLedgerEntry" /\ res.status = 400
  /\ \E date \in Dates :
       /\ dailyLedgers[date] # NoLedger
       /\ dailyLedgers[date].is_closed
       /\ entriesOf(ledger, date) # <<>>

====
